---------------------------- MODULE Spec2Model ----------------------------
(***************************************************************************)
(* The reconciliation engine of telofy-app (src/lib/services/              *)
(* syncService.ts): syncAll, syncObjectives, syncTasks, the module-level   *)
(* idMapping and the published syncState.                                  *)
(*                                                                         *)
(* One action is one stretch of synchronous JavaScript: from the moment a  *)
(* network response is delivered to the moment the next network call is    *)
(* issued (the next await) or the invocation returns.  The remote store    *)
(* applies a request and answers it in the same step.                      *)
(***************************************************************************)
EXTENDS Integers, Sequences, FiniteSets, TLC

VARIABLES
    isAuthenticated,   \* useAuthStore.getState().isAuthenticated
    syncState,         \* the module-level syncState {status, lastSyncAt, error}
    idMapping,         \* the module-level Map local id -> server id
    localObjectives,   \* useObjectiveStore.getState().objectives
    localTasks,        \* useTaskStore.getState().tasks
    remoteObjectives,  \* the backend's objectives, in list order
    remoteTasks,       \* the backend's tasks
    frames,            \* per invocation of syncAll: its locals and its position
    nextId,            \* how many identifiers generateId has handed out
    faults,            \* how many network calls have failed so far
    notified,          \* the snapshots handed to the listeners, oldest first
    results,           \* the values returned by syncAll, oldest first
    passes,            \* one summary per finished authenticated pass
    deferredEarlier,   \* ids of local tasks skipped as "objective not synced yet"
    listeners,         \* syncService: the module-level Set of listener functions
    unsubscribers,     \* the functions subscribeSyncState has returned, oldest first
    delivered,         \* per listener function: the snapshots it was called with
    platform,          \* expo-notifications: the scheduled notifications
    nextNotificationId,       \* how many identifiers the platform has handed out
    scheduledNotifications,   \* notificationScheduler: Map task id -> notification ids
    morningBriefingScheduled, \* notificationScheduler: the module-level flag
    schedulerCalls,    \* per call of a scheduler function: its locals and position
    schedulerReturns,  \* the values the scheduler functions returned, oldest first
    platformFaults,    \* how many platform scheduling calls have failed so far
    retry              \* the invocation of withRetry: its locals and its position

syncVars == <<isAuthenticated, syncState, idMapping, localObjectives, localTasks,
              remoteObjectives, remoteTasks, frames, nextId, faults, notified,
              results, passes, deferredEarlier, delivered>>

schedulerVars == <<platform, nextNotificationId, scheduledNotifications,
                   morningBriefingScheduled, schedulerCalls, schedulerReturns,
                   platformFaults>>

\* what no step of syncAll touches
outsideSync == <<listeners, unsubscribers, schedulerVars, retry>>

vars == <<syncVars, outsideSync>>

(***************************************************************************)
(* Bounds of the model.                                                    *)
(***************************************************************************)
MaxInvocations == 2    \* calls of syncAll in one behaviour
MaxFaults == 2         \* network calls that fail in one behaviour
MaxObjectives == 2     \* objectives per store in the initial state
MaxTasks == 2          \* tasks per store in the initial state

Slots == {1, 2}        \* activation records available to syncAll

(***************************************************************************)
(* Identifiers.  An identifier is UUID-shaped or an arbitrary local token. *)
(***************************************************************************)
Tok(n) == [shape |-> "token", origin |-> "device", n |-> n]
Uuid(n) == [shape |-> "uuid", origin |-> "seed", n |-> n]
NoId == [shape |-> "undefined", origin |-> "none", n |-> 0]

\* a test that takes any string for canonical
isValidUUIDAnyString(id) == id.shape \in {"uuid", "token"}

isValidUUID(id) == id.shape = "uuid"

\* lib/utils/id generateId: the k-th identifier it hands out, a fresh UUID
generateId(k) == [shape |-> "uuid", origin |-> "generated", n |-> k]

(***************************************************************************)
(* String.prototype.toLowerCase on the names the model uses.               *)
(***************************************************************************)
toLowerCase(s) ==
    CASE s = "Fitness" -> "fitness"
      [] s = "FITNESS" -> "fitness"
      [] s = "Health" -> "health"
      [] s = "Strength" -> "strength"
      [] s = "Weight" -> "weight"
      [] s = "Workout" -> "workout"
      [] OTHER -> s

(***************************************************************************)
(* Map.set and Map.get on idMapping, a function on the keys it holds.      *)
(***************************************************************************)
MapSet(m, k, v) == [x \in (DOMAIN m) \cup {k} |-> IF x = k THEN v ELSE m[x]]
MapHas(m, k) == k \in DOMAIN m
EmptyMap == [x \in {} |-> NoId]

Range(s) == {s[x] : x \in DOMAIN s}
Ids(s) == {s[x].id : x \in DOMAIN s}

\* new Map(list.map(o => [o.id, o])): a later entry replaces an earlier one
\* the winner is the last of the positions that carry the key; 0: none
LastIndex(hits) ==
    IF hits = {} THEN 0 ELSE CHOOSE x \in hits : \A y \in hits : y <= x
\* Array.prototype.find: the first of the positions that satisfy the test
FirstIndex(hits) ==
    IF hits = {} THEN 0 ELSE CHOOSE x \in hits : \A y \in hits : x <= y


(***************************************************************************)
(* The entities the initial stores are drawn from.  Local objectives carry *)
(* recorded history; remote ones carry entries and completions.            *)
(***************************************************************************)
LocalFitness ==
    [id |-> Tok(1), name |-> "Fitness",
     pillars |-> <<[id |-> Tok(11), name |-> "Strength"]>>,
     metrics |-> <<[id |-> Tok(12), name |-> "Weight", pillarId |-> Tok(11),
                    history |-> <<80>>]>>,
     rituals |-> <<[id |-> Uuid(13), name |-> "Workout", pillarId |-> Tok(11),
                    completionsThisPeriod |-> 1, completionHistory |-> <<1>>]>>]
LocalHealth ==
    [id |-> Uuid(2), name |-> "Health", pillars |-> <<>>,
     metrics |-> <<[id |-> Uuid(14), name |-> "Sleep", pillarId |-> NoId,
                    history |-> <<>>]>>,
     rituals |-> <<>>]
LocalFitnessAgain ==
    [id |-> Tok(3), name |-> "fitness", pillars |-> <<>>, metrics |-> <<>>,
     rituals |-> <<>>]
LocalObjectiveChoices == <<LocalFitness, LocalHealth, LocalFitnessAgain>>

RemoteFitness ==
    [id |-> Uuid(5), name |-> "fitness",
     pillars |-> <<[id |-> Uuid(51), name |-> "strength"]>>,
     metrics |-> <<[id |-> Uuid(52), name |-> "weight", pillarId |-> Uuid(51),
                    entries |-> <<79>>]>>,
     rituals |-> <<[id |-> Uuid(53), name |-> "Yoga", pillarId |-> Uuid(51),
                    completions |-> <<1, 2>>]>>]
RemoteFITNESS ==
    [id |-> Uuid(6), name |-> "FITNESS", pillars |-> <<>>, metrics |-> <<>>,
     rituals |-> <<>>]
RemoteHealth ==
    [id |-> Uuid(2), name |-> "Health", pillars |-> <<>>,
     metrics |-> <<[id |-> Uuid(14), name |-> "sleep", pillarId |-> NoId,
                    entries |-> <<7>>]>>,
     rituals |-> <<>>]
RemoteObjectiveChoices == <<RemoteFitness, RemoteFITNESS, RemoteHealth>>

TaskRun ==
    [id |-> Tok(21), objectiveId |-> Tok(1), pillarId |-> Tok(11),
     ritualId |-> Uuid(13), title |-> "Run", status |-> "overdue",
     completedAt |-> 0, skippedReason |-> "", scheduledAt |-> "today"]
TaskCheckup ==
    [id |-> Uuid(22), objectiveId |-> Uuid(2), pillarId |-> NoId,
     ritualId |-> NoId, title |-> "Checkup", status |-> "completed",
     completedAt |-> 1, skippedReason |-> "", scheduledAt |-> "today"]
\* a task of an earlier day that was left undone; the backend holds it under
\* the same identifier, rescheduled to today
TaskStretch ==
    [id |-> Uuid(24), objectiveId |-> Tok(1), pillarId |-> Tok(11),
     ritualId |-> NoId, title |-> "Stretch", status |-> "overdue",
     completedAt |-> 0, skippedReason |-> "", scheduledAt |-> "yesterday"]
LocalTaskChoices == <<TaskRun, TaskCheckup, TaskStretch>>

RemoteCheckup ==
    [id |-> Uuid(22), objectiveId |-> Uuid(2), pillarId |-> NoId,
     ritualId |-> NoId, title |-> "Checkup", status |-> "pending",
     completedAt |-> 0, skippedReason |-> "", scheduledAt |-> "today"]
RemoteStretch ==
    [id |-> Uuid(24), objectiveId |-> Uuid(5), pillarId |-> Uuid(51),
     ritualId |-> Uuid(53), title |-> "Stretch", status |-> "in_progress",
     completedAt |-> 0, skippedReason |-> "", scheduledAt |-> "today"]
RemoteTaskChoices == <<RemoteCheckup, RemoteStretch>>

\* the subsequences of s with at most n elements, in the order of s
RECURSIVE SubSeqs(_, _)
SubSeqs(s, n) ==
    IF s = <<>> \/ n = 0 THEN {<<>>}
    ELSE SubSeqs(Tail(s), n)
         \cup {<<Head(s)>> \o t : t \in SubSeqs(Tail(s), n - 1)}

(***************************************************************************)
(* syncObjectives: the pure parts.                                         *)
(***************************************************************************)
\* remoteMap.has / remoteMap.get, localMap.has
HasId(list, id) == \E x \in DOMAIN list : list[x].id = id
GetById(list, id) == list[LastIndex({x \in DOMAIN list : list[x].id = id})]

\* remoteByName keeping the first objective of a repeated name
IndexByNameFirst(remotes, name) ==
    FirstIndex({x \in DOMAIN remotes :
                  toLowerCase(remotes[x].name) = toLowerCase(name)})

\* remoteByName without the case folding
IndexByNameCaseSensitive(remotes, name) ==
    LastIndex({x \in DOMAIN remotes : remotes[x].name = name})

\* remoteByName.get(name.toLowerCase()): 0 when undefined
IndexByName(remotes, name) ==
    LastIndex({x \in DOMAIN remotes :
                 toLowerCase(remotes[x].name) = toLowerCase(name)})

\* one of the three loops of mapPillarsAndRituals, from child x on
RECURSIVE MapChildrenByName(_, _, _, _)
MapChildrenByName(localChildren, remoteChildren, x, m) ==
    IF x > Len(localChildren) THEN m
    ELSE LET lc == localChildren[x]
             hit == FirstIndex({y \in DOMAIN remoteChildren :
                        toLowerCase(remoteChildren[y].name) = toLowerCase(lc.name)})
         IN  MapChildrenByName(localChildren, remoteChildren, x + 1,
                 IF hit # 0 THEN MapSet(m, lc.id, remoteChildren[hit].id) ELSE m)

\* the reconciliation of pillars and rituals alone
mapPillarsAndRitualsOnly(local, remote, m) ==
    LET m1 == MapChildrenByName(local.pillars, remote.pillars, 1, m)
    IN  MapChildrenByName(local.rituals, remote.rituals, 1, m1)

\* mapPillarsAndRituals: pillars, then metrics, then rituals
mapPillarsAndRituals(local, remote, m) ==
    LET m1 == MapChildrenByName(local.pillars, remote.pillars, 1, m)
        m2 == MapChildrenByName(local.metrics, remote.metrics, 1, m1)
    IN  MapChildrenByName(local.rituals, remote.rituals, 1, m2)

\* the upload loop looking for a remote objective of the name first
ObjectiveMatchNameFirst(local, remotes) ==
    IF IndexByName(remotes, local.name) # 0 THEN "byName"
    ELSE IF HasId(remotes, local.id) THEN "byId"
    ELSE "localOnly"

\* the first branch of the upload loop a local objective takes
ObjectiveMatch(local, remotes) ==
    IF HasId(remotes, local.id) THEN "byId"
    ELSE IF IndexByName(remotes, local.name) # 0 THEN "byName"
    ELSE "localOnly"

\* the upload loop from local objective i on, up to the objective whose
\* createObjective call comes next (or past the end of the list)
RECURSIVE ScanObjectives(_, _, _, _)
ScanObjectives(locals, remotes, i, m) ==
    IF i > Len(locals) THEN [i |-> i, map |-> m]
    ELSE LET local == locals[i]
             how == ObjectiveMatch(local, remotes)
         IN  CASE how = "byId" ->
                    ScanObjectives(locals, remotes, i + 1,
                        mapPillarsAndRituals(local, GetById(remotes, local.id),
                            MapSet(m, local.id, local.id)))
               [] how = "byName" ->
                    LET existingByName == remotes[IndexByName(remotes, local.name)]
                    IN  ScanObjectives(locals, remotes, i + 1,
                            mapPillarsAndRituals(local, existingByName,
                                MapSet(m, local.id, existingByName.id)))
               [] OTHER -> [i |-> i, map |-> m]

\* how many of the first x identifiers of a list need a generated identifier
Generated(list, x) == Cardinality({y \in 1..x : ~isValidUUID(list[y].id)})

\* pillarMappings, metricMappings, ritualMappings: k identifiers were
\* generated before the first of this list
MintMappings(list, k) ==
    [x \in DOMAIN list |->
        [localId |-> list[x].id,
         serverId |-> IF isValidUUID(list[x].id) THEN list[x].id
                      ELSE generateId(k + Generated(list, x))]]

\* the minting with a generated identifier for every objective
MintAlwaysGenerates(local, k) ==
    LET k0 == k + 1
        k1 == k0 + Generated(local.pillars, Len(local.pillars))
        k2 == k1 + Generated(local.metrics, Len(local.metrics))
        k3 == k2 + Generated(local.rituals, Len(local.rituals))
    IN  [objectiveId |-> generateId(k0),
         pillarMappings |-> MintMappings(local.pillars, k0),
         metricMappings |-> MintMappings(local.metrics, k1),
         ritualMappings |-> MintMappings(local.rituals, k2),
         next |-> k3]

\* the identifiers minted for an objective and its children, in the order
\* of the code: objective, pillars, metrics, rituals
Mint(local, k) ==
    LET k0 == IF isValidUUID(local.id) THEN k ELSE k + 1
        k1 == k0 + Generated(local.pillars, Len(local.pillars))
        k2 == k1 + Generated(local.metrics, Len(local.metrics))
        k3 == k2 + Generated(local.rituals, Len(local.rituals))
    IN  [objectiveId |-> IF isValidUUID(local.id) THEN local.id ELSE generateId(k0),
         pillarMappings |-> MintMappings(local.pillars, k0),
         metricMappings |-> MintMappings(local.metrics, k1),
         ritualMappings |-> MintMappings(local.rituals, k2),
         next |-> k3]

\* the owning pillar sent as the local objective holds it
ServerPillarIdAsHeld(pillarMappings, pillarId) == pillarId

\* pillarMappings.find(pm => pm.localId === pillarId)?.serverId
ServerPillarId(pillarMappings, pillarId) ==
    IF pillarId = NoId THEN NoId
    ELSE LET hit == FirstIndex({x \in DOMAIN pillarMappings :
                                   pillarMappings[x].localId = pillarId})
         IN  IF hit = 0 THEN NoId ELSE pillarMappings[hit].serverId

\* the argument of api.createObjective
ObjectivePayload(local, minted) ==
    [id |-> minted.objectiveId,
     name |-> local.name,
     pillars |-> [x \in DOMAIN local.pillars |->
                    [id |-> minted.pillarMappings[x].serverId,
                     name |-> local.pillars[x].name]],
     metrics |-> [x \in DOMAIN local.metrics |->
                    [id |-> minted.metricMappings[x].serverId,
                     name |-> local.metrics[x].name,
                     pillarId |-> ServerPillarId(minted.pillarMappings,
                                                 local.metrics[x].pillarId)]],
     rituals |-> [x \in DOMAIN local.rituals |->
                    [id |-> minted.ritualMappings[x].serverId,
                     name |-> local.rituals[x].name,
                     pillarId |-> ServerPillarId(minted.pillarMappings,
                                                 local.rituals[x].pillarId)]]]

\* idMapping.set for a list of mappings, in order
RECURSIVE StoreMappings(_, _, _)
StoreMappings(mappings, x, m) ==
    IF x > Len(mappings) THEN m
    ELSE StoreMappings(mappings, x + 1,
             MapSet(m, mappings[x].localId, mappings[x].serverId))

\* "Store all the ID mappings" after a created objective
StoreAllMappings(localId, minted, m) ==
    LET m0 == MapSet(m, localId, minted.objectiveId)
        m1 == StoreMappings(minted.pillarMappings, 1, m0)
        m2 == StoreMappings(minted.metricMappings, 1, m1)
    IN  StoreMappings(minted.ritualMappings, 1, m2)

\* the download loop: the next remote objective from j on that is not local
NextDownload(remotes, locals, j) ==
    LET hits == {x \in j..Len(remotes) : ~HasId(locals, remotes[x].id)}
    IN  IF hits = {} THEN Len(remotes) + 1
        ELSE CHOOSE x \in hits : \A y \in hits : x <= y

\* the local objective built with the entries and completions of the detail
LocalFromDetailWithHistory(fullObjective) ==
    [id |-> fullObjective.id,
     name |-> fullObjective.name,
     pillars |-> [x \in DOMAIN fullObjective.pillars |->
                    [id |-> fullObjective.pillars[x].id,
                     name |-> fullObjective.pillars[x].name]],
     metrics |-> [x \in DOMAIN fullObjective.metrics |->
                    [id |-> fullObjective.metrics[x].id,
                     name |-> fullObjective.metrics[x].name,
                     pillarId |-> fullObjective.metrics[x].pillarId,
                     history |-> fullObjective.metrics[x].entries]],
     rituals |-> [x \in DOMAIN fullObjective.rituals |->
                    [id |-> fullObjective.rituals[x].id,
                     name |-> fullObjective.rituals[x].name,
                     pillarId |-> fullObjective.rituals[x].pillarId,
                     completionsThisPeriod |-> Len(fullObjective.rituals[x].completions),
                     completionHistory |-> fullObjective.rituals[x].completions]]]

\* the local objective built from the detail the backend returns
LocalFromDetail(fullObjective) ==
    [id |-> fullObjective.id,
     name |-> fullObjective.name,
     pillars |-> [x \in DOMAIN fullObjective.pillars |->
                    [id |-> fullObjective.pillars[x].id,
                     name |-> fullObjective.pillars[x].name]],
     metrics |-> [x \in DOMAIN fullObjective.metrics |->
                    [id |-> fullObjective.metrics[x].id,
                     name |-> fullObjective.metrics[x].name,
                     pillarId |-> fullObjective.metrics[x].pillarId,
                     history |-> <<>>]],
     rituals |-> [x \in DOMAIN fullObjective.rituals |->
                    [id |-> fullObjective.rituals[x].id,
                     name |-> fullObjective.rituals[x].name,
                     pillarId |-> fullObjective.rituals[x].pillarId,
                     completionsThisPeriod |-> 0,
                     completionHistory |-> <<>>]]]

\* what the backend keeps of a created objective: the submitted identifiers,
\* no entries and no completions yet
RemoteFromPayload(payload) ==
    [id |-> payload.id,
     name |-> payload.name,
     pillars |-> payload.pillars,
     metrics |-> [x \in DOMAIN payload.metrics |->
                    [id |-> payload.metrics[x].id,
                     name |-> payload.metrics[x].name,
                     pillarId |-> payload.metrics[x].pillarId,
                     entries |-> <<>>]],
     rituals |-> [x \in DOMAIN payload.rituals |->
                    [id |-> payload.rituals[x].id,
                     name |-> payload.rituals[x].name,
                     pillarId |-> payload.rituals[x].pillarId,
                     completions |-> <<>>]]]

(***************************************************************************)
(* syncTasks: the pure parts.                                              *)
(***************************************************************************)
\* api.getTasks(today): the backend's tasks scheduled today
TodaysTasks(tasks) == SelectSeq(tasks, LAMBDA t : t.scheduledAt = "today")

\* what the upload loop does with one local task
TaskFate(local, remotes, m) ==
    IF HasId(remotes, local.id) THEN "present"
    ELSE IF ~MapHas(m, local.objectiveId) THEN "deferred"
    ELSE "upload"

\* the upload loop: the next local task from k on whose createTask comes next
NextUpload(locals, remotes, k, m) ==
    LET hits == {x \in k..Len(locals) : TaskFate(locals[x], remotes, m) = "upload"}
    IN  IF hits = {} THEN Len(locals) + 1
        ELSE CHOOSE x \in hits : \A y \in hits : x <= y

\* the tasks of locals[from..to] the loop skips as "objective not synced yet"
SkippedTasks(locals, remotes, from, to, m) ==
    {locals[x].id : x \in {y \in from..to :
                             TaskFate(locals[y], remotes, m) = "deferred"}}

\* the reference passed through whatever its shape
ResolveReferenceAnyShape(ref, m) ==
    IF ref = NoId THEN NoId
    ELSE IF MapHas(m, ref) THEN m[ref]
    ELSE ref

\* idMapping.get(ref) || (isValidUUID(ref) ? ref : undefined)
ResolveReference(ref, m) ==
    IF ref = NoId THEN NoId
    ELSE IF MapHas(m, ref) THEN m[ref]
    ELSE IF isValidUUID(ref) THEN ref
    ELSE NoId

\* the argument of api.createTask with the local objective reference sent as is
TaskPayloadLocalObjective(local, m, k) ==
    [id |-> IF isValidUUID(local.id) THEN local.id ELSE generateId(k + 1),
     objectiveId |-> local.objectiveId,
     pillarId |-> ResolveReference(local.pillarId, m),
     ritualId |-> ResolveReference(local.ritualId, m),
     title |-> local.title,
     scheduledAt |-> local.scheduledAt]

\* the argument of api.createTask; k identifiers were generated before
TaskPayload(local, m, k) ==
    [id |-> IF isValidUUID(local.id) THEN local.id ELSE generateId(k + 1),
     objectiveId |-> m[local.objectiveId],
     pillarId |-> ResolveReference(local.pillarId, m),
     ritualId |-> ResolveReference(local.ritualId, m),
     title |-> local.title,
     scheduledAt |-> local.scheduledAt]

\* what the backend keeps of a created task
RemoteTaskFromPayload(payload) ==
    [id |-> payload.id, objectiveId |-> payload.objectiveId,
     pillarId |-> payload.pillarId, ritualId |-> payload.ritualId,
     title |-> payload.title, status |-> "pending", completedAt |-> 0,
     skippedReason |-> "", scheduledAt |-> payload.scheduledAt]

\* the local status sent without the mapping of 'overdue'
apiStatusAsIs(local) == local.status

\* local.status === 'overdue' ? 'pending' : local.status
apiStatus(local) == IF local.status = "overdue" THEN "pending" ELSE local.status

\* the comparison made with the local status as it is
NeedsStatusPushUntranslated(local, remotes) ==
    /\ HasId(remotes, local.id)
    /\ local.status # GetById(remotes, local.id).status

\* remote && apiStatus !== remote.status
NeedsStatusPush(local, remotes) ==
    /\ HasId(remotes, local.id)
    /\ apiStatus(local) # GetById(remotes, local.id).status

\* the status loop: the next local task from u on whose updateTask comes next
NextStatusPush(locals, remotes, u) ==
    LET hits == {x \in u..Len(locals) : NeedsStatusPush(locals[x], remotes)}
    IN  IF hits = {} THEN Len(locals) + 1
        ELSE CHOOSE x \in hits : \A y \in hits : x <= y

\* the second argument of api.updateTask
StatusUpdate(local) ==
    [status |-> apiStatus(local), completedAt |-> local.completedAt,
     skippedReason |-> local.skippedReason]

\* the backend's task list after PATCH /api/tasks/:id
ApplyUpdate(tasks, id, update) ==
    [x \in DOMAIN tasks |->
        IF tasks[x].id = id
        THEN [tasks[x] EXCEPT !.status = update.status,
                              !.completedAt = update.completedAt,
                              !.skippedReason = update.skippedReason]
        ELSE tasks[x]]

\* the local task built like a newly created one, its status 'pending'
LocalTaskFromRemoteAsNew(remote) ==
    [id |-> remote.id, objectiveId |-> remote.objectiveId,
     pillarId |-> remote.pillarId, ritualId |-> remote.ritualId,
     title |-> remote.title, status |-> "pending", completedAt |-> 0,
     skippedReason |-> "", scheduledAt |-> remote.scheduledAt]

\* localTask of the download loop; new Date(iso) is the instant iso denotes
LocalTaskFromRemote(remote) ==
    [id |-> remote.id, objectiveId |-> remote.objectiveId,
     pillarId |-> remote.pillarId, ritualId |-> remote.ritualId,
     title |-> remote.title, status |-> remote.status,
     completedAt |-> remote.completedAt,
     skippedReason |-> remote.skippedReason,
     scheduledAt |-> remote.scheduledAt]

\* the download loop: the remote tasks that are not local, as local tasks
DownloadedTasks(remotes, locals) ==
    LET absent == SelectSeq(remotes, LAMBDA r : ~HasId(locals, r.id))
    IN  [x \in DOMAIN absent |-> LocalTaskFromRemote(absent[x])]

\* useObjectiveStore addObjective, useTaskStore addTasks: append to the store
addObjective(store, objective) == Append(store, objective)
addTasks(store, tasks) == store \o tasks

(***************************************************************************)
(* Messages and the values syncAll publishes and returns.                  *)
(***************************************************************************)
Null == [text |-> "null", count |-> 0]
NotAuthenticated == [text |-> "Not authenticated", count |-> 0]
ItemsFailed(n) == [text |-> "item(s) failed to sync", count |-> n]
ItemsFailedSeeConsole(n) ==
    [text |-> "item(s) failed to sync. Check console for details.", count |-> n]
\* the message of the Error that request() throws when fetch rejects
UnableToConnect ==
    [text |-> "Unable to connect to server. Please check your internet connection.",
     count |-> 0]
FailedToUploadObjective(name) == [kind |-> "objective", name |-> name]
FailedToUploadTask(title) == [kind |-> "task", name |-> title]

NeverSynced == 0                 \* lastSyncAt: null
Now == Len(results) + 1          \* new Date(): later calls read later instants

(***************************************************************************)
(* The activation record of one invocation of syncAll.                     *)
(***************************************************************************)
NoMint ==
    [objectiveId |-> NoId, pillarMappings |-> <<>>, metricMappings |-> <<>>,
     ritualMappings |-> <<>>, next |-> 0]
NoPayload == [id |-> NoId]

IdleFrame ==
    [pc |-> "idle",
     localObjectives |-> <<>>,   \* syncObjectives: localObjectives
     remoteObjectives |-> <<>>,  \* syncObjectives: remoteObjectives
     i |-> 0,                    \* position of the upload loop
     minted |-> NoMint,          \* objectiveId and the three mapping lists
     j |-> 0,                    \* position of the download loop
     objErrors |-> <<>>,         \* syncObjectives: errors
     localTasks |-> <<>>,        \* syncTasks: localTasks
     remoteTasks |-> <<>>,       \* syncTasks: remoteTasks
     k |-> 0,                    \* position of the task upload loop
     u |-> 0,                    \* position of the status loop
     taskErrors |-> <<>>,        \* syncTasks: errors
     deferred |-> {},            \* tasks skipped by the upload loop
     log |-> <<>>,               \* the network calls issued, in order
     lastSyncAtBefore |-> NeverSynced]  \* syncState.lastSyncAt when syncAll was called

Call(op, about, payload) ==
    [op |-> op, about |-> about, payload |-> payload, outcome |-> "pending"]

\* the frame with its outstanding call answered
Answered(f, outcome) ==
    [f EXCEPT !.log[Len(f.log)].outcome = outcome]

Issue(f, pc, about, payload) ==
    [f EXCEPT !.pc = pc, !.log = Append(@, Call(pc, about, payload))]

(***************************************************************************)
(* The synchronous code between two awaits.  Each operator takes the frame,*)
(* idMapping and the generateId counter and runs to the next network call. *)
(***************************************************************************)
\* the status loop followed by one more run of the download loop
ResumeStatusSyncThenDownload(f, m, n, u) ==
    LET nu == NextStatusPush(f.localTasks, f.remoteTasks, u)
        nj == NextDownload(f.remoteObjectives, f.localObjectives, 1)
    IN  IF nu <= Len(f.localTasks)
        THEN [frame |-> Issue([f EXCEPT !.u = nu], "updateTask",
                              f.localTasks[nu].id, StatusUpdate(f.localTasks[nu])),
              idMapping |-> m, nextId |-> n]
        ELSE IF nj <= Len(f.remoteObjectives) /\ Len(f.log) < 6
        THEN [frame |-> Issue([f EXCEPT !.u = nu, !.j = nj], "getObjective",
                              f.remoteObjectives[nj].id, NoPayload),
              idMapping |-> m, nextId |-> n]
        ELSE [frame |-> [f EXCEPT !.u = nu, !.pc = "finish"],
              idMapping |-> m, nextId |-> n]

\* the status loop begun again after every answer
ResumeStatusSyncFromTheTop(f, m, n, u) ==
    LET nu == NextStatusPush(f.localTasks, f.remoteTasks, 1)
    IN  IF nu <= Len(f.localTasks)
        THEN [frame |-> Issue([f EXCEPT !.u = nu], "updateTask",
                              f.localTasks[nu].id, StatusUpdate(f.localTasks[nu])),
              idMapping |-> m, nextId |-> n]
        ELSE [frame |-> [f EXCEPT !.u = nu, !.pc = "finish"],
              idMapping |-> m, nextId |-> n]

\* syncTasks from the status loop at task u
ResumeStatusSync(f, m, n, u) ==
    LET nu == NextStatusPush(f.localTasks, f.remoteTasks, u)
    IN  IF nu <= Len(f.localTasks)
        THEN [frame |-> Issue([f EXCEPT !.u = nu], "updateTask",
                              f.localTasks[nu].id, StatusUpdate(f.localTasks[nu])),
              idMapping |-> m, nextId |-> n]
        ELSE [frame |-> [f EXCEPT !.u = nu, !.pc = "finish"],
              idMapping |-> m, nextId |-> n]

\* syncTasks from the upload loop at task k
ResumeTaskUpload(f, m, n, k) ==
    LET nk == NextUpload(f.localTasks, f.remoteTasks, k, m)
        skipped == SkippedTasks(f.localTasks, f.remoteTasks, k,
                                IF nk <= Len(f.localTasks) THEN nk - 1
                                ELSE Len(f.localTasks), m)
        g == [f EXCEPT !.k = nk, !.deferred = @ \cup skipped]
    IN  IF nk <= Len(f.localTasks)
        THEN LET local == f.localTasks[nk]
             IN  [frame |-> Issue(g, "createTask", local.id, TaskPayload(local, m, n)),
                  idMapping |-> m,
                  nextId |-> IF isValidUUID(local.id) THEN n ELSE n + 1]
        ELSE ResumeStatusSync(g, m, n, 1)

\* syncAll after syncObjectives has returned: syncTasks up to api.getTasks
EnterTasks(f, m, n) ==
    [frame |-> Issue([f EXCEPT !.localTasks = localTasks], "getTasks", NoId, NoPayload),
     idMapping |-> m, nextId |-> n]

\* the download loop asking for every missing objective at once
ResumeDownloadAllAtOnce(f, m, n, j) ==
    LET missing == {x \in j..Len(f.remoteObjectives) :
                      ~HasId(f.localObjectives, f.remoteObjectives[x].id)}
        absent == SelectSeq(SubSeq(f.remoteObjectives, j, Len(f.remoteObjectives)),
                            LAMBDA r : ~HasId(f.localObjectives, r.id))
        calls == [x \in DOMAIN absent |-> Call("getObjective", absent[x].id, NoPayload)]
    IN  IF missing # {}
        THEN [frame |-> [f EXCEPT !.j = FirstIndex(missing), !.pc = "getObjective",
                                  !.log = @ \o calls],
              idMapping |-> m, nextId |-> n]
        ELSE EnterTasks([f EXCEPT !.j = Len(f.remoteObjectives) + 1], m, n)

\* syncObjectives from the download loop at remote objective j
ResumeDownload(f, m, n, j) ==
    LET nj == NextDownload(f.remoteObjectives, f.localObjectives, j)
    IN  IF nj <= Len(f.remoteObjectives)
        THEN [frame |-> Issue([f EXCEPT !.j = nj], "getObjective",
                              f.remoteObjectives[nj].id, NoPayload),
              idMapping |-> m, nextId |-> n]
        ELSE EnterTasks([f EXCEPT !.j = nj], m, n)

\* the upload loop with the mappings stored before api.createObjective answers
ResumeUploadMapsEarly(f, m, n, i) ==
    LET scan == ScanObjectives(f.localObjectives, f.remoteObjectives, i, m)
    IN  IF scan.i <= Len(f.localObjectives)
        THEN LET local == f.localObjectives[scan.i]
                 minted == Mint(local, n)
             IN  [frame |-> Issue([f EXCEPT !.i = scan.i, !.minted = minted],
                                  "createObjective", local.id,
                                  ObjectivePayload(local, minted)),
                  idMapping |-> StoreAllMappings(local.id, minted, scan.map),
                  nextId |-> minted.next]
        ELSE ResumeDownload([f EXCEPT !.i = scan.i], scan.map, n, 1)

\* syncObjectives from the upload loop at local objective i
ResumeUpload(f, m, n, i) ==
    LET scan == ScanObjectives(f.localObjectives, f.remoteObjectives, i, m)
    IN  IF scan.i <= Len(f.localObjectives)
        THEN LET local == f.localObjectives[scan.i]
                 minted == Mint(local, n)
             IN  [frame |-> Issue([f EXCEPT !.i = scan.i, !.minted = minted],
                                  "createObjective", local.id,
                                  ObjectivePayload(local, minted)),
                  idMapping |-> scan.map, nextId |-> minted.next]
        ELSE ResumeDownload([f EXCEPT !.i = scan.i], scan.map, n, 1)

(***************************************************************************)
(* syncAll: how an invocation ends.                                        *)
(***************************************************************************)
\* the final state with a single failed item tolerated
FinalStateLenient(errors, at) ==
    [status |-> IF Len(errors) > 1 THEN "error" ELSE "success",
     lastSyncAt |-> at,
     error |-> IF Len(errors) > 1 THEN ItemsFailed(Len(errors)) ELSE Null]

\* the state syncAll publishes after both phases have returned
FinalState(errors, at) ==
    [status |-> IF Len(errors) > 0 THEN "error" ELSE "success",
     lastSyncAt |-> at,
     error |-> IF Len(errors) > 0 THEN ItemsFailed(Len(errors)) ELSE Null]

\* the value syncAll returns after both phases have returned
FinalResult(errors) ==
    IF Len(errors) > 0
    THEN [success |-> FALSE, error |-> ItemsFailedSeeConsole(Len(errors))]
    ELSE [success |-> TRUE, error |-> Null]

\* the catch block publishing the message without the status
CaughtStateKeepsStatus(state, message) == [state EXCEPT !.error = message]

\* the catch block stamping the time like the end of a completed pass
CaughtStateStamped(state, message) ==
    [status |-> "error", lastSyncAt |-> Now, error |-> message]

\* the state syncAll publishes from its catch block
CaughtState(state, message) == [state EXCEPT !.status = "error", !.error = message]

\* the listener functions of the model
Listeners == {"a", "b"}

\* the listeners kept in a list: one call per subscription still standing
DeliverPerSubscription(state) ==
    LET standing(l) == SelectSeq(unsubscribers,
                           LAMBDA u : u.listener = l /\ ~u.called)
        Calls(l, n) == [x \in 1..n |-> state]
    IN  delivered' = [l \in Listeners |->
                         delivered[l] \o Calls(l, Len(standing(l)))]

\* listeners.forEach((listener) => listener(state))
Deliver(state) ==
    delivered' = [l \in Listeners |->
                     IF l \in listeners THEN Append(delivered[l], state)
                     ELSE delivered[l]]

\* the listeners handed the snapshot the transition replaced
notifyListenersStale ==
    /\ notified' = Append(notified, syncState)
    /\ Deliver(syncState)

\* notifyListeners: every listener is called with the syncState just assigned
notifyListeners ==
    /\ notified' = Append(notified, syncState')
    /\ Deliver(syncState')

PassSummary(f, escaped, state, result, m) ==
    [frame |-> f, escaped |-> escaped, state |-> state, result |-> result,
     idMapping |-> m]

\* the invocation in slot s goes on with r: to its next await, or to its end
Proceed(s, r) ==
    /\ idMapping' = r.idMapping
    /\ nextId' = r.nextId
    /\ IF r.frame.pc = "finish"
       THEN LET f == r.frame
                errors == f.objErrors \o f.taskErrors
                state == FinalState(errors, Now)
                result == FinalResult(errors)
            IN  /\ localTasks' =
                       addTasks(localTasks, DownloadedTasks(f.remoteTasks, f.localTasks))
                /\ syncState' = state
                /\ notifyListeners
                /\ results' = Append(results, result)
                /\ passes' = Append(passes,
                                 PassSummary(f, FALSE, state, result, r.idMapping))
                /\ deferredEarlier' = deferredEarlier \cup f.deferred
                /\ frames' = [frames EXCEPT ![s] = IdleFrame]
       ELSE /\ frames' = [frames EXCEPT ![s] = r.frame]
            /\ UNCHANGED <<localTasks, syncState, notified, delivered, results, passes,
                           deferredEarlier>>

\* the catch block of syncAll: an exception left syncObjectives or syncTasks
Escape(s, f, message) ==
    LET state == CaughtState(syncState, message)
        result == [success |-> FALSE, error |-> message]
    IN  /\ syncState' = state
        /\ notifyListeners
        /\ results' = Append(results, result)
        /\ passes' = Append(passes, PassSummary(f, TRUE, state, result, idMapping))
        /\ deferredEarlier' = deferredEarlier \cup f.deferred
        /\ frames' = [frames EXCEPT ![s] = IdleFrame]
        /\ UNCHANGED <<idMapping, nextId, localTasks>>

InFlight == {t \in Slots : frames[t].pc # "idle"}
Pending(s) == frames[s].log[Len(frames[s].log)]

(***************************************************************************)
(* The actions.                                                            *)
(***************************************************************************)
\* useAuthStore setUser(user) with a user, and signOut.  syncAll reads
\* isAuthenticated only when it is called, so the model lets the session
\* change between invocations.
setUser ==
    /\ InFlight = {}
    /\ ~isAuthenticated
    /\ isAuthenticated' = TRUE
    /\ UNCHANGED <<syncState, idMapping, localObjectives, localTasks,
                   remoteObjectives, remoteTasks, frames, nextId, faults,
                   notified, delivered, results, passes, deferredEarlier>>
    /\ UNCHANGED outsideSync

signOut ==
    /\ InFlight = {}
    /\ isAuthenticated
    /\ isAuthenticated' = FALSE
    /\ UNCHANGED <<syncState, idMapping, localObjectives, localTasks,
                   remoteObjectives, remoteTasks, frames, nextId, faults,
                   notified, delivered, results, passes, deferredEarlier>>
    /\ UNCHANGED outsideSync

\* the guard placed after the transition to 'syncing'
RejectUnauthenticatedLate ==
    LET state == [syncState EXCEPT !.status = "error", !.error = NotAuthenticated]
    IN  /\ syncState' = state
        /\ notified' = Append(notified, state)
        /\ Deliver(state)
        /\ results' = Append(results, [success |-> FALSE, error |-> NotAuthenticated])
        /\ UNCHANGED <<frames, idMapping, nextId, passes, deferredEarlier>>

\* syncAll, the guard: the session is not authenticated
RejectUnauthenticated ==
    /\ results' = Append(results, [success |-> FALSE, error |-> NotAuthenticated])
    /\ UNCHANGED <<syncState, notified, delivered, frames, idMapping, nextId, passes,
                   deferredEarlier>>

\* syncAll with a busy guard: a call is turned away while a pass is running
syncAllBusyGuarded(s) ==
    /\ frames[s].pc = "idle"
    /\ \A t \in Slots : t < s => frames[t].pc # "idle"
    /\ Len(results) + Cardinality(InFlight) < MaxInvocations
    /\ IF ~isAuthenticated \/ InFlight # {}
       THEN RejectUnauthenticated
       ELSE LET state == [syncState EXCEPT !.status = "syncing", !.error = Null]
            IN  /\ syncState' = state
                /\ notifyListeners
                /\ frames' = [frames EXCEPT ![s] =
                       Issue([IdleFrame EXCEPT !.localObjectives = localObjectives,
                                               !.lastSyncAtBefore = syncState.lastSyncAt],
                             "getObjectives", NoId, NoPayload)]
                /\ UNCHANGED <<results, idMapping, nextId, passes, deferredEarlier>>
    /\ UNCHANGED <<isAuthenticated, localObjectives, localTasks, remoteObjectives,
                   remoteTasks, faults>>
    /\ UNCHANGED outsideSync

\* syncAll, from the call to the first await (api.getObjectives)
syncAll(s) ==
    /\ frames[s].pc = "idle"
    /\ \A t \in Slots : t < s => frames[t].pc # "idle"
    /\ Len(results) + Cardinality(InFlight) < MaxInvocations
    /\ IF ~isAuthenticated
       THEN RejectUnauthenticated
       ELSE LET state == [syncState EXCEPT !.status = "syncing", !.error = Null]
            IN  /\ syncState' = state
                /\ notifyListeners
                /\ frames' = [frames EXCEPT ![s] =
                       Issue([IdleFrame EXCEPT !.localObjectives = localObjectives,
                                               !.lastSyncAtBefore = syncState.lastSyncAt],
                             "getObjectives", NoId, NoPayload)]
                /\ UNCHANGED <<results, idMapping, nextId, passes, deferredEarlier>>
    /\ UNCHANGED <<isAuthenticated, localObjectives, localTasks, remoteObjectives,
                   remoteTasks, faults>>
    /\ UNCHANGED outsideSync

\* the settings screen disables its sync button while the status is 'syncing'
SerializedSyncAll(s) == InFlight = {} /\ syncAll(s)

getObjectivesResolves(s) ==
    /\ frames[s].pc = "getObjectives"
    /\ Proceed(s, ResumeUpload(
           [Answered(frames[s], "ok") EXCEPT !.remoteObjectives = remoteObjectives],
           idMapping, nextId, 1))
    /\ UNCHANGED <<isAuthenticated, localObjectives, remoteObjectives, remoteTasks,
                   faults>>
    /\ UNCHANGED outsideSync

getObjectivesRejects(s) ==
    /\ frames[s].pc = "getObjectives"
    /\ faults < MaxFaults
    /\ faults' = faults + 1
    /\ Escape(s, Answered(frames[s], "failed"), UnableToConnect)
    /\ UNCHANGED <<isAuthenticated, localObjectives, remoteObjectives, remoteTasks>>
    /\ UNCHANGED outsideSync

createObjectiveResolves(s) ==
    LET f == frames[s]
        local == f.localObjectives[f.i]
    IN  /\ f.pc = "createObjective"
        /\ ~HasId(remoteObjectives, Pending(s).payload.id)
        /\ remoteObjectives' =
               Append(remoteObjectives, RemoteFromPayload(Pending(s).payload))
        /\ Proceed(s, ResumeUpload(Answered(f, "ok"),
                          StoreAllMappings(local.id, f.minted, idMapping),
                          nextId, f.i + 1))
        /\ UNCHANGED <<isAuthenticated, localObjectives, remoteTasks, faults>>
        /\ UNCHANGED outsideSync

\* a 2xx answer that is not JSON: request() returns {message}, so
\* result.objective is undefined and neither branch records anything
createObjectiveResolvesEmpty(s) ==
    LET f == frames[s]
    IN  /\ f.pc = "createObjective"
        /\ faults < MaxFaults
        /\ faults' = faults + 1
        /\ Proceed(s, ResumeUpload(Answered(f, "empty"), idMapping, nextId, f.i + 1))
        /\ UNCHANGED <<isAuthenticated, localObjectives, remoteObjectives,
                       remoteTasks>>
        /\ UNCHANGED outsideSync

\* the catch of api.createObjective with the mappings already stored
createObjectiveRejectsKeepsMappings(s) ==
    LET f == frames[s]
        local == f.localObjectives[f.i]
        g == [Answered(f, "failed") EXCEPT
                 !.objErrors = Append(@, FailedToUploadObjective(local.name))]
    IN  /\ f.pc = "createObjective"
        /\ faults < MaxFaults
        /\ faults' = faults + 1
        /\ Proceed(s, ResumeUpload(g, StoreAllMappings(local.id, f.minted, idMapping),
                                   nextId, f.i + 1))
        /\ UNCHANGED <<isAuthenticated, localObjectives, remoteObjectives,
                       remoteTasks>>
        /\ UNCHANGED outsideSync

createObjectiveRejects(s) ==
    LET f == frames[s]
        local == f.localObjectives[f.i]
        g == [Answered(f, "failed") EXCEPT
                 !.objErrors = Append(@, FailedToUploadObjective(local.name))]
    IN  /\ f.pc = "createObjective"
        /\ faults < MaxFaults
        /\ faults' = faults + 1
        /\ Proceed(s, ResumeUpload(g, idMapping, nextId, f.i + 1))
        /\ UNCHANGED <<isAuthenticated, localObjectives, remoteObjectives,
                       remoteTasks>>
        /\ UNCHANGED outsideSync

\* the download replacing the store by the downloaded objective
getObjectiveResolvesOverwrites(s) ==
    LET f == frames[s]
        remote == f.remoteObjectives[f.j]
        localObjective == LocalFromDetail(GetById(remoteObjectives, remote.id))
    IN  /\ f.pc = "getObjective"
        /\ HasId(remoteObjectives, remote.id)
        /\ localObjectives' = <<localObjective>>
        /\ Proceed(s, ResumeDownload(Answered(f, "ok"),
                          MapSet(idMapping, localObjective.id, localObjective.id),
                          nextId, f.j + 1))
        /\ UNCHANGED <<isAuthenticated, remoteObjectives, remoteTasks, faults>>
        /\ UNCHANGED outsideSync

getObjectiveResolves(s) ==
    LET f == frames[s]
        remote == f.remoteObjectives[f.j]
        localObjective == LocalFromDetail(GetById(remoteObjectives, remote.id))
    IN  /\ f.pc = "getObjective"
        /\ HasId(remoteObjectives, remote.id)
        /\ localObjectives' = addObjective(localObjectives, localObjective)
        /\ Proceed(s, ResumeDownload(Answered(f, "ok"),
                          MapSet(idMapping, localObjective.id, localObjective.id),
                          nextId, f.j + 1))
        /\ UNCHANGED <<isAuthenticated, remoteObjectives, remoteTasks, faults>>
        /\ UNCHANGED outsideSync

\* api.getObjective inside a try of its own, like the two create calls
getObjectiveRejectsCaught(s) ==
    LET f == frames[s]
        remote == f.remoteObjectives[f.j]
        g == [Answered(f, "failed") EXCEPT
                 !.objErrors = Append(@, FailedToUploadObjective(remote.name))]
    IN  /\ f.pc = "getObjective"
        /\ faults < MaxFaults
        /\ faults' = faults + 1
        /\ Proceed(s, ResumeDownload(g, idMapping, nextId, f.j + 1))
        /\ UNCHANGED <<isAuthenticated, localObjectives, remoteObjectives,
                       remoteTasks>>
        /\ UNCHANGED outsideSync

\* api.getObjective rejects: the exception leaves syncObjectives
getObjectiveRejects(s) ==
    /\ frames[s].pc = "getObjective"
    /\ faults < MaxFaults
    /\ faults' = faults + 1
    /\ Escape(s, Answered(frames[s], "failed"), UnableToConnect)
    /\ UNCHANGED <<isAuthenticated, localObjectives, remoteObjectives, remoteTasks>>
    /\ UNCHANGED outsideSync

getTasksResolves(s) ==
    /\ frames[s].pc = "getTasks"
    /\ Proceed(s, ResumeTaskUpload(
           [Answered(frames[s], "ok") EXCEPT !.remoteTasks = TodaysTasks(remoteTasks)],
           idMapping, nextId, 1))
    /\ UNCHANGED <<isAuthenticated, localObjectives, remoteObjectives, remoteTasks,
                   faults>>
    /\ UNCHANGED outsideSync

getTasksRejects(s) ==
    /\ frames[s].pc = "getTasks"
    /\ faults < MaxFaults
    /\ faults' = faults + 1
    /\ Escape(s, Answered(frames[s], "failed"), UnableToConnect)
    /\ UNCHANGED <<isAuthenticated, localObjectives, remoteObjectives, remoteTasks>>
    /\ UNCHANGED outsideSync

createTaskResolves(s) ==
    LET f == frames[s]
    IN  /\ f.pc = "createTask"
        /\ ~HasId(remoteTasks, Pending(s).payload.id)
        /\ remoteTasks' = Append(remoteTasks, RemoteTaskFromPayload(Pending(s).payload))
        /\ Proceed(s, ResumeTaskUpload(Answered(f, "ok"), idMapping, nextId, f.k + 1))
        /\ UNCHANGED <<isAuthenticated, localObjectives, remoteObjectives, faults>>
        /\ UNCHANGED outsideSync

\* the catch of api.createTask around the whole upload loop
createTaskRejectsLeavesLoop(s) ==
    LET f == frames[s]
        local == f.localTasks[f.k]
        g == [Answered(f, "failed") EXCEPT
                 !.taskErrors = Append(@, FailedToUploadTask(local.title))]
    IN  /\ f.pc = "createTask"
        /\ faults < MaxFaults
        /\ faults' = faults + 1
        /\ Proceed(s, ResumeStatusSync(g, idMapping, nextId, 1))
        /\ UNCHANGED <<isAuthenticated, localObjectives, remoteObjectives,
                       remoteTasks>>
        /\ UNCHANGED outsideSync

createTaskRejects(s) ==
    LET f == frames[s]
        local == f.localTasks[f.k]
        g == [Answered(f, "failed") EXCEPT
                 !.taskErrors = Append(@, FailedToUploadTask(local.title))]
    IN  /\ f.pc = "createTask"
        /\ faults < MaxFaults
        /\ faults' = faults + 1
        /\ Proceed(s, ResumeTaskUpload(g, idMapping, nextId, f.k + 1))
        /\ UNCHANGED <<isAuthenticated, localObjectives, remoteObjectives,
                       remoteTasks>>
        /\ UNCHANGED outsideSync

updateTaskResolves(s) ==
    LET f == frames[s]
    IN  /\ f.pc = "updateTask"
        /\ remoteTasks' = ApplyUpdate(remoteTasks, Pending(s).about, Pending(s).payload)
        /\ Proceed(s, ResumeStatusSync(Answered(f, "ok"), idMapping, nextId, f.u + 1))
        /\ UNCHANGED <<isAuthenticated, localObjectives, remoteObjectives, faults>>
        /\ UNCHANGED outsideSync

\* the catch around api.updateTask pushing a message like the other catches
updateTaskRejectsCounted(s) ==
    LET f == frames[s]
        local == f.localTasks[f.u]
        g == [Answered(f, "failed") EXCEPT
                 !.taskErrors = Append(@, FailedToUploadTask(local.title))]
    IN  /\ f.pc = "updateTask"
        /\ faults < MaxFaults
        /\ faults' = faults + 1
        /\ Proceed(s, ResumeStatusSync(g, idMapping, nextId, f.u + 1))
        /\ UNCHANGED <<isAuthenticated, localObjectives, remoteObjectives,
                       remoteTasks>>
        /\ UNCHANGED outsideSync

\* the catch around api.updateTask only logs
updateTaskRejects(s) ==
    LET f == frames[s]
    IN  /\ f.pc = "updateTask"
        /\ faults < MaxFaults
        /\ faults' = faults + 1
        /\ Proceed(s, ResumeStatusSync(Answered(f, "failed"), idMapping, nextId,
                                       f.u + 1))
        /\ UNCHANGED <<isAuthenticated, localObjectives, remoteObjectives,
                       remoteTasks>>
        /\ UNCHANGED outsideSync

(***************************************************************************)
(* The state outside syncAll as the modules leave it when loaded: nobody   *)
(* has subscribed, nothing is scheduled, withRetry has not been called.    *)
(***************************************************************************)
ListenersInit ==
    /\ listeners = {}
    /\ unsubscribers = <<>>

CallSlots == {1, 2}

\* the activation record of a scheduler function that is not running
IdleCall ==
    [fn |-> "none", pc |-> "idle",
     taskId |-> "none",       \* task.id
     escalation |-> FALSE,    \* preference.escalation
     notificationIds |-> <<>>, \* cancelTaskNotifications: the ids still to cancel
     reminderId |-> 0]        \* scheduleTaskReminder: reminderId

SchedulerInit ==
    /\ platform = <<>>
    /\ nextNotificationId = 0
    /\ scheduledNotifications = [t \in {} |-> <<>>]
    /\ morningBriefingScheduled = FALSE
    /\ schedulerCalls = [c \in CallSlots |-> IdleCall]
    /\ schedulerReturns = <<>>
    /\ platformFaults = 0

\* what fn throws: the fields withRetry looks at
Failure(status, code, message) ==
    [status |-> status, code |-> code, message |-> message]

NoFailure == Failure(0, "none", "none")

\* withRetry before it is called
IdleRetry ==
    [pc |-> "idle",
     maxRetries |-> 0,     \* options.maxRetries
     attempt |-> 0,        \* the loop variable
     thrown |-> <<>>,      \* what fn has thrown so far, oldest first
     calls |-> 0,          \* how often fn has been called
     outcome |-> "none",   \* "returned" or "threw"
     error |-> NoFailure]  \* what withRetry threw

RetryInit == retry = IdleRetry

OutsideSyncInit == ListenersInit /\ SchedulerInit /\ RetryInit

(***************************************************************************)
(* The initial state: the module has just been loaded, nobody is signed    *)
(* in, and each store holds some of the entities above.  A task belongs to *)
(* an objective of its own store.                                          *)
(***************************************************************************)
Init ==
    /\ isAuthenticated = FALSE
    /\ syncState = [status |-> "idle", lastSyncAt |-> NeverSynced, error |-> Null]
    /\ idMapping = EmptyMap
    /\ localObjectives \in SubSeqs(LocalObjectiveChoices, MaxObjectives)
    /\ remoteObjectives \in SubSeqs(RemoteObjectiveChoices, MaxObjectives)
    /\ localTasks \in {t \in SubSeqs(LocalTaskChoices, MaxTasks) :
                         \A x \in DOMAIN t : HasId(localObjectives, t[x].objectiveId)}
    /\ remoteTasks \in {t \in SubSeqs(RemoteTaskChoices, MaxTasks) :
                          \A x \in DOMAIN t : HasId(remoteObjectives, t[x].objectiveId)}
    /\ frames = [s \in Slots |-> IdleFrame]
    /\ nextId = 0
    /\ faults = 0
    /\ notified = <<>>
    /\ results = <<>>
    /\ passes = <<>>
    /\ deferredEarlier = {}
    /\ delivered = [l \in Listeners |-> <<>>]
    /\ OutsideSyncInit

Next ==
    \/ setUser
    \/ signOut
    \/ \E s \in Slots : SerializedSyncAll(s)
    \/ \E s \in Slots : getObjectivesResolves(s)
    \/ \E s \in Slots : getObjectivesRejects(s)
    \/ \E s \in Slots : createObjectiveResolves(s)
    \/ \E s \in Slots : createObjectiveResolvesEmpty(s)
    \/ \E s \in Slots : createObjectiveRejects(s)
    \/ \E s \in Slots : getObjectiveResolves(s)
    \/ \E s \in Slots : getObjectiveRejects(s)
    \/ \E s \in Slots : getTasksResolves(s)
    \/ \E s \in Slots : getTasksRejects(s)
    \/ \E s \in Slots : createTaskResolves(s)
    \/ \E s \in Slots : createTaskRejects(s)
    \/ \E s \in Slots : updateTaskResolves(s)
    \/ \E s \in Slots : updateTaskRejects(s)

Spec == Init /\ [][Next]_vars

(***************************************************************************)
(* syncAll itself has no busy guard: two quick presses, or a caller other  *)
(* than the settings screen, start an invocation while another one is      *)
(* suspended at an await.                                                  *)
(***************************************************************************)
NextOverlap ==
    \/ setUser
    \/ signOut
    \/ \E s \in Slots : syncAll(s)
    \/ \E s \in Slots : getObjectivesResolves(s)
    \/ \E s \in Slots : getObjectivesRejects(s)
    \/ \E s \in Slots : createObjectiveResolves(s)
    \/ \E s \in Slots : createObjectiveResolvesEmpty(s)
    \/ \E s \in Slots : createObjectiveRejects(s)
    \/ \E s \in Slots : getObjectiveResolves(s)
    \/ \E s \in Slots : getObjectiveRejects(s)
    \/ \E s \in Slots : getTasksResolves(s)
    \/ \E s \in Slots : getTasksRejects(s)
    \/ \E s \in Slots : createTaskResolves(s)
    \/ \E s \in Slots : createTaskRejects(s)
    \/ \E s \in Slots : updateTaskResolves(s)
    \/ \E s \in Slots : updateTaskRejects(s)

SpecOverlap == Init /\ [][NextOverlap]_vars

(***************************************************************************)
(* Subscribing to the sync state.  The settings screen subscribes when it  *)
(* mounts and calls the returned function when it unmounts; the stores are *)
(* empty here, so a pass is getObjectives followed by getTasks.            *)
(***************************************************************************)
MaxSubscriptions == 2

\* subscribeSyncState(listener): the Set takes a function once
subscribeSyncState(l) ==
    /\ Len(unsubscribers) < MaxSubscriptions
    /\ listeners' = listeners \cup {l}
    /\ unsubscribers' = Append(unsubscribers, [listener |-> l, called |-> FALSE])
    /\ UNCHANGED <<syncVars, schedulerVars, retry>>

\* () => listeners.delete(listener), the h-th function subscribeSyncState returned
unsubscribe(h) ==
    /\ h \in DOMAIN unsubscribers
    /\ listeners' = listeners \ {unsubscribers[h].listener}
    /\ unsubscribers' = [unsubscribers EXCEPT ![h].called = TRUE]
    /\ UNCHANGED <<syncVars, schedulerVars, retry>>

InitListeners ==
    /\ Init
    /\ localObjectives = <<>>
    /\ remoteObjectives = <<>>
    /\ localTasks = <<>>
    /\ remoteTasks = <<>>

NextListeners ==
    \/ setUser
    \/ signOut
    \/ \E s \in Slots : SerializedSyncAll(s)
    \/ \E s \in Slots : getObjectivesResolves(s)
    \/ \E s \in Slots : getObjectivesRejects(s)
    \/ \E s \in Slots : getTasksResolves(s)
    \/ \E s \in Slots : getTasksRejects(s)
    \/ \E l \in Listeners : subscribeSyncState(l)
    \/ \E h \in 1..MaxSubscriptions : unsubscribe(h)

SpecListeners == InitListeners /\ [][NextListeners]_vars

(***************************************************************************)
(* notificationScheduler.ts.  The platform is expo-notifications: it keeps *)
(* the scheduled notifications and hands out their identifiers.  One       *)
(* action is one synchronous stretch of a scheduler function, from one     *)
(* await to the next.                                                      *)
(***************************************************************************)
MaxSchedulerCalls == 3
MaxPlatformFaults == 2

TaskIds == {"t1", "t2"}
NoTask == "none"
NoNotification == 0              \* null, or undefined
Threw == -1                      \* the call ended by throwing

\* what no scheduler function touches
outsideScheduler == <<syncVars, listeners, unsubscribers, retry>>

Running == {c \in CallSlots : schedulerCalls[c].pc # "idle"}
Quiet == Running = {}

\* a call may begin in slot c
MayBegin(c) ==
    /\ schedulerCalls[c].pc = "idle"
    /\ \A d \in CallSlots : d < c => schedulerCalls[d].pc # "idle"
    /\ Len(schedulerReturns) + Cardinality(Running) < MaxSchedulerCalls

Notification(identifier, type, taskId) ==
    [identifier |-> identifier, type |-> type, taskId |-> taskId]

OfType(notifications, type) == SelectSeq(notifications, LAMBDA n : n.type = type)

\* Notifications.scheduleNotificationAsync resolving: the platform's list after
Scheduled(type, taskId) ==
    Append(platform, Notification(nextNotificationId + 1, type, taskId))

\* Notifications.cancelScheduledNotificationAsync(id): the platform's list after
Cancelled(identifier) == SelectSeq(platform, LAMBDA n : n.identifier # identifier)

MapDelete(m, k) == [x \in (DOMAIN m) \ {k} |-> m[x]]

ReturnValue(fn, taskId, value) == [fn |-> fn, taskId |-> taskId, value |-> value]

\* the call in slot c returns value
Return(c, value) ==
    /\ schedulerReturns' = Append(schedulerReturns,
           ReturnValue(schedulerCalls[c].fn, schedulerCalls[c].taskId, value))
    /\ schedulerCalls' = [schedulerCalls EXCEPT ![c] = IdleCall]

\* the call in slot c goes on to its next await
Await(c, pc) ==
    /\ schedulerCalls' = [schedulerCalls EXCEPT ![c].pc = pc]
    /\ UNCHANGED schedulerReturns

\* a platform scheduling call fails
PlatformFails ==
    /\ platformFaults < MaxPlatformFaults
    /\ platformFaults' = platformFaults + 1

(***************************************************************************)
(* scheduleRecurringMorningBriefing                                        *)
(***************************************************************************)
scheduleRecurringMorningBriefing(c) ==
    /\ MayBegin(c)
    /\ schedulerCalls' = [schedulerCalls EXCEPT ![c] =
           [IdleCall EXCEPT !.fn = "scheduleRecurringMorningBriefing",
                            !.pc = "getAllScheduled"]]
    /\ UNCHANGED <<platform, nextNotificationId, scheduledNotifications,
                   morningBriefingScheduled, schedulerReturns, platformFaults>>
    /\ UNCHANGED outsideScheduler

\* getAllScheduledNotificationsAsync has resolved: the two guards
getAllScheduledResolves(c) ==
    LET existingMorning == OfType(platform, "morning_briefing")
    IN  /\ schedulerCalls[c].fn = "scheduleRecurringMorningBriefing"
        /\ schedulerCalls[c].pc = "getAllScheduled"
        /\ IF Len(existingMorning) > 0
           THEN Return(c, existingMorning[1].identifier)
           ELSE IF morningBriefingScheduled
           THEN Return(c, NoNotification)
           ELSE Await(c, "scheduleBriefing")
        /\ UNCHANGED <<platform, nextNotificationId, scheduledNotifications,
                       morningBriefingScheduled, platformFaults>>
        /\ UNCHANGED outsideScheduler

\* getAllScheduledNotificationsAsync rejects: no try around it, the caller gets
\* the exception
getAllScheduledRejects(c) ==
    /\ schedulerCalls[c].fn = "scheduleRecurringMorningBriefing"
    /\ schedulerCalls[c].pc = "getAllScheduled"
    /\ PlatformFails
    /\ Return(c, Threw)
    /\ UNCHANGED <<platform, nextNotificationId, scheduledNotifications,
                   morningBriefingScheduled>>
    /\ UNCHANGED outsideScheduler

scheduleBriefingResolves(c) ==
    /\ schedulerCalls[c].pc = "scheduleBriefing"
    /\ platform' = Scheduled("morning_briefing", NoTask)
    /\ nextNotificationId' = nextNotificationId + 1
    /\ morningBriefingScheduled' = TRUE
    /\ Return(c, nextNotificationId + 1)
    /\ UNCHANGED <<scheduledNotifications, platformFaults>>
    /\ UNCHANGED outsideScheduler

\* the catch block: the failure is logged and null returned
scheduleBriefingRejects(c) ==
    /\ schedulerCalls[c].pc = "scheduleBriefing"
    /\ PlatformFails
    /\ Return(c, NoNotification)
    /\ UNCHANGED <<platform, nextNotificationId, scheduledNotifications,
                   morningBriefingScheduled>>
    /\ UNCHANGED outsideScheduler

\* the daily briefing a previous session left on the platform
BriefingLeft == <<Notification(1, "morning_briefing", NoTask)>>

\* syncAll is never called: its module and the stores stay as loaded
SyncAtRest ==
    /\ isAuthenticated = FALSE
    /\ syncState = [status |-> "idle", lastSyncAt |-> NeverSynced, error |-> Null]
    /\ idMapping = EmptyMap
    /\ localObjectives = <<>>
    /\ remoteObjectives = <<>>
    /\ localTasks = <<>>
    /\ remoteTasks = <<>>
    /\ frames = [s \in Slots |-> IdleFrame]
    /\ nextId = 0
    /\ faults = 0
    /\ notified = <<>>
    /\ results = <<>>
    /\ passes = <<>>
    /\ deferredEarlier = {}
    /\ delivered = [l \in Listeners |-> <<>>]

InitBriefing ==
    /\ SyncAtRest
    /\ ListenersInit
    /\ RetryInit
    /\ platform \in {<<>>, BriefingLeft}
    /\ nextNotificationId = Len(platform)
    /\ scheduledNotifications = [t \in {} |-> <<>>]
    /\ morningBriefingScheduled = FALSE
    /\ schedulerCalls = [c \in CallSlots |-> IdleCall]
    /\ schedulerReturns = <<>>
    /\ platformFaults = 0

NextBriefing ==
    \/ \E c \in CallSlots : scheduleRecurringMorningBriefing(c)
    \/ \E c \in CallSlots : getAllScheduledResolves(c)
    \/ \E c \in CallSlots : getAllScheduledRejects(c)
    \/ \E c \in CallSlots : scheduleBriefingResolves(c)
    \/ \E c \in CallSlots : scheduleBriefingRejects(c)

SpecBriefing == InitBriefing /\ [][NextBriefing]_vars

(***************************************************************************)
(* scheduleTaskReminder, cancelTaskNotifications and                       *)
(* cancelAllScheduledNotifications, called one after the other.            *)
(***************************************************************************)
\* cancelTaskNotifications(taskId) up to its first await, or to its end: the
\* record of the call and the Map after
BeginCancel(call, m) ==
    IF MapHas(m, call.taskId) /\ Len(m[call.taskId]) > 0
    THEN [call |-> [call EXCEPT !.pc = "cancelScheduled",
                                !.notificationIds = m[call.taskId]],
          map |-> m]
    ELSE [call |-> [call EXCEPT !.pc = "cancelled"],
          map |-> MapDelete(m, call.taskId)]

\* what follows cancelTaskNotifications: scheduleTaskReminder goes on to
\* schedule, a direct call returns
AfterCancel(c, call) ==
    IF call.fn = "scheduleTaskReminder"
    THEN /\ schedulerCalls' = [schedulerCalls EXCEPT ![c] =
                [call EXCEPT !.pc = "scheduleReminder"]]
         /\ UNCHANGED schedulerReturns
    ELSE /\ schedulerReturns' = Append(schedulerReturns,
                ReturnValue(call.fn, call.taskId, NoNotification))
         /\ schedulerCalls' = [schedulerCalls EXCEPT ![c] = IdleCall]

\* the call goes on from where BeginCancel or a cancel answer left it
ContinueCancel(c, r) ==
    /\ scheduledNotifications' = r.map
    /\ IF r.call.pc = "cancelled"
       THEN AfterCancel(c, r.call)
       ELSE /\ schedulerCalls' = [schedulerCalls EXCEPT ![c] = r.call]
            /\ UNCHANGED schedulerReturns

\* scheduleTaskReminder(task, preference); due is false when notifications
\* are disabled or the reminder time has passed
scheduleTaskReminder(c, taskId, escalation, due) ==
    /\ MayBegin(c)
    /\ Quiet
    /\ IF ~due
       THEN /\ schedulerReturns' = Append(schedulerReturns,
                   ReturnValue("scheduleTaskReminder", taskId, NoNotification))
            /\ UNCHANGED <<schedulerCalls, scheduledNotifications>>
       ELSE ContinueCancel(c, BeginCancel(
                [IdleCall EXCEPT !.fn = "scheduleTaskReminder", !.taskId = taskId,
                                 !.escalation = escalation],
                scheduledNotifications))
    /\ UNCHANGED <<platform, nextNotificationId, morningBriefingScheduled,
                   platformFaults>>
    /\ UNCHANGED outsideScheduler

cancelTaskNotifications(c, taskId) ==
    /\ MayBegin(c)
    /\ Quiet
    /\ ContinueCancel(c, BeginCancel(
           [IdleCall EXCEPT !.fn = "cancelTaskNotifications", !.taskId = taskId],
           scheduledNotifications))
    /\ UNCHANGED <<platform, nextNotificationId, morningBriefingScheduled,
                   platformFaults>>
    /\ UNCHANGED outsideScheduler

\* cancelScheduledNotificationAsync(id) has resolved: the next id, or the
\* Map entry is deleted
cancelScheduledResolves(c) ==
    LET call == schedulerCalls[c]
        rest == Tail(call.notificationIds)
    IN  /\ call.pc = "cancelScheduled"
        /\ platform' = Cancelled(Head(call.notificationIds))
        /\ ContinueCancel(c,
               IF rest # <<>>
               THEN [call |-> [call EXCEPT !.notificationIds = rest],
                     map |-> scheduledNotifications]
               ELSE [call |-> [call EXCEPT !.notificationIds = rest,
                                           !.pc = "cancelled"],
                     map |-> MapDelete(scheduledNotifications, call.taskId)])
        /\ UNCHANGED <<nextNotificationId, morningBriefingScheduled, platformFaults>>
        /\ UNCHANGED outsideScheduler

\* the advance reminder is scheduled
scheduleReminderResolves(c) ==
    /\ schedulerCalls[c].pc = "scheduleReminder"
    /\ platform' = Scheduled("task_reminder", schedulerCalls[c].taskId)
    /\ nextNotificationId' = nextNotificationId + 1
    /\ schedulerCalls' = [schedulerCalls EXCEPT
           ![c].reminderId = nextNotificationId + 1, ![c].pc = "scheduleStart"]
    /\ UNCHANGED <<scheduledNotifications, morningBriefingScheduled,
                   schedulerReturns, platformFaults>>
    /\ UNCHANGED outsideScheduler

\* the catch block of scheduleTaskReminder: null is returned
scheduleReminderRejects(c) ==
    /\ schedulerCalls[c].pc = "scheduleReminder"
    /\ PlatformFails
    /\ Return(c, NoNotification)
    /\ UNCHANGED <<platform, nextNotificationId, scheduledNotifications,
                   morningBriefingScheduled>>
    /\ UNCHANGED outsideScheduler

\* the start notification is scheduled and both ids are stored
scheduleStartResolves(c) ==
    LET call == schedulerCalls[c]
    IN  /\ call.pc = "scheduleStart"
        /\ platform' = Scheduled("task_start", call.taskId)
        /\ nextNotificationId' = nextNotificationId + 1
        /\ scheduledNotifications' =
               MapSet(scheduledNotifications, call.taskId,
                      <<call.reminderId, nextNotificationId + 1>>)
        /\ IF call.escalation
           THEN Await(c, "scheduleOverdue")
           ELSE Return(c, call.reminderId)
        /\ UNCHANGED <<morningBriefingScheduled, platformFaults>>
        /\ UNCHANGED outsideScheduler

scheduleStartRejects(c) ==
    /\ schedulerCalls[c].pc = "scheduleStart"
    /\ PlatformFails
    /\ Return(c, NoNotification)
    /\ UNCHANGED <<platform, nextNotificationId, scheduledNotifications,
                   morningBriefingScheduled>>
    /\ UNCHANGED outsideScheduler

\* the overdue notification is scheduled and its id added to the entry
scheduleOverdueResolves(c) ==
    LET call == schedulerCalls[c]
        existing == IF MapHas(scheduledNotifications, call.taskId)
                    THEN scheduledNotifications[call.taskId] ELSE <<>>
    IN  /\ call.pc = "scheduleOverdue"
        /\ platform' = Scheduled("deviation", call.taskId)
        /\ nextNotificationId' = nextNotificationId + 1
        /\ scheduledNotifications' =
               MapSet(scheduledNotifications, call.taskId,
                      Append(existing, nextNotificationId + 1))
        /\ Return(c, call.reminderId)
        /\ UNCHANGED <<morningBriefingScheduled, platformFaults>>
        /\ UNCHANGED outsideScheduler

scheduleOverdueRejects(c) ==
    /\ schedulerCalls[c].pc = "scheduleOverdue"
    /\ PlatformFails
    /\ Return(c, NoNotification)
    /\ UNCHANGED <<platform, nextNotificationId, scheduledNotifications,
                   morningBriefingScheduled>>
    /\ UNCHANGED outsideScheduler

cancelAllScheduledNotifications(c) ==
    /\ MayBegin(c)
    /\ Quiet
    /\ schedulerCalls' = [schedulerCalls EXCEPT ![c] =
           [IdleCall EXCEPT !.fn = "cancelAllScheduledNotifications",
                            !.pc = "cancelAll"]]
    /\ UNCHANGED <<platform, nextNotificationId, scheduledNotifications,
                   morningBriefingScheduled, schedulerReturns, platformFaults>>
    /\ UNCHANGED outsideScheduler

\* cancelAllScheduledNotificationsAsync has resolved: the Map is cleared
cancelAllResolves(c) ==
    /\ schedulerCalls[c].pc = "cancelAll"
    /\ platform' = <<>>
    /\ scheduledNotifications' = [t \in {} |-> <<>>]
    /\ Return(c, NoNotification)
    /\ UNCHANGED <<nextNotificationId, morningBriefingScheduled, platformFaults>>
    /\ UNCHANGED outsideScheduler

InitReminders == SyncAtRest /\ OutsideSyncInit

NextReminders ==
    \/ \E c \in CallSlots : \E t \in TaskIds : \E e, due \in BOOLEAN :
           scheduleTaskReminder(c, t, e, due)
    \/ \E c \in CallSlots : \E t \in TaskIds : cancelTaskNotifications(c, t)
    \/ \E c \in CallSlots : cancelAllScheduledNotifications(c)
    \/ \E c \in CallSlots : cancelScheduledResolves(c)
    \/ \E c \in CallSlots : scheduleReminderResolves(c)
    \/ \E c \in CallSlots : scheduleReminderRejects(c)
    \/ \E c \in CallSlots : scheduleStartResolves(c)
    \/ \E c \in CallSlots : scheduleStartRejects(c)
    \/ \E c \in CallSlots : scheduleOverdueResolves(c)
    \/ \E c \in CallSlots : scheduleOverdueRejects(c)
    \/ \E c \in CallSlots : cancelAllResolves(c)

SpecReminders == InitReminders /\ [][NextReminders]_vars

(***************************************************************************)
(* withRetry: one call of it, fn failing or succeeding at each attempt.    *)
(***************************************************************************)
MostRetries == 3

\* the errors fn throws in the model
RateLimited == Failure(429, "rate_limit_exceeded", "Rate limit reached for requests")
TooManyRequests == Failure(0, "none", "429 Too Many Requests")
QuotaExceeded ==
    Failure(429, "insufficient_quota", "You exceeded your current quota")
RateLimitedOverQuota ==
    Failure(429, "rate_limit_exceeded", "Rate limit reached: check your Quota")
BillingLimit == Failure(400, "billing_hard_limit_reached", "Billing hard limit reached")
ConnectionError == Failure(0, "none", "Connection error.")

Failures == {RateLimited, TooManyRequests, QuotaExceeded, RateLimitedOverQuota,
             BillingLimit, ConnectionError}

\* message.toLowerCase(): the messages of the model in lower case
LowerCased(message) ==
    CASE message = "Rate limit reached for requests" -> "rate limit reached for requests"
      [] message = "429 Too Many Requests" -> "429 too many requests"
      [] message = "You exceeded your current quota" -> "you exceeded your current quota"
      [] message = "Rate limit reached: check your Quota" ->
             "rate limit reached: check your quota"
      [] message = "Billing hard limit reached" -> "billing hard limit reached"
      [] message = "Connection error." -> "connection error."
      [] OTHER -> message

\* text.includes(word), for the words withRetry looks for
Includes(text, word) ==
    CASE word = "quota" -> text \in {"you exceeded your current quota",
                                      "rate limit reached: check your quota"}
      [] word = "billing" -> text \in {"billing hard limit reached"}
      [] word = "429" -> text \in {"429 Too Many Requests", "429 too many requests"}
      [] word = "rate limit" -> text \in {"rate limit reached for requests",
                                           "rate limit reached: check your quota"}
      [] OTHER -> FALSE

isQuotaError(error) ==
    \/ error.code = "insufficient_quota"
    \/ Includes(LowerCased(error.message), "quota")
    \/ Includes(LowerCased(error.message), "billing")

isRateLimit(error) ==
    \/ error.status = 429
    \/ error.code = "rate_limit_exceeded"
    \/ Includes(error.message, "429")
    \/ Includes(LowerCased(error.message), "rate limit")

\* the rate-limit test made first, the quota test left for the other errors
GoesOnAfterRateLimitFirst(error, attempt, maxRetries) ==
    isRateLimit(error) /\ attempt # maxRetries

\* the catch block: whether the loop goes on after error
GoesOnAfter(error, attempt, maxRetries) ==
    /\ ~isQuotaError(error)
    /\ ~(~isRateLimit(error) \/ attempt = maxRetries)

outsideRetry == <<syncVars, listeners, unsubscribers, schedulerVars>>

\* withRetry(fn, {maxRetries}): the loop is entered and fn called
withRetry(maxRetries) ==
    /\ retry.pc = "idle"
    /\ retry' = [retry EXCEPT !.pc = "fn", !.maxRetries = maxRetries,
                              !.attempt = 0, !.calls = 1]
    /\ UNCHANGED outsideRetry

\* return await fn()
fnResolves ==
    /\ retry.pc = "fn"
    /\ retry' = [retry EXCEPT !.pc = "done", !.outcome = "returned"]
    /\ UNCHANGED outsideRetry

\* fn threw error: rethrown, or the delay begins
fnRejects(error) ==
    /\ retry.pc = "fn"
    /\ IF GoesOnAfter(error, retry.attempt, retry.maxRetries)
       THEN retry' = [retry EXCEPT !.pc = "delay",
                                   !.thrown = Append(@, error)]
       ELSE retry' = [retry EXCEPT !.pc = "done", !.outcome = "threw",
                                   !.error = error,
                                   !.thrown = Append(@, error)]
    /\ UNCHANGED outsideRetry

\* await delay(waitTime) is over: attempt++ and fn is called again
delayElapses ==
    /\ retry.pc = "delay"
    /\ retry' = [retry EXCEPT !.pc = "fn", !.attempt = @ + 1, !.calls = @ + 1]
    /\ UNCHANGED outsideRetry

InitRetry == SyncAtRest /\ OutsideSyncInit

NextRetry ==
    \/ \E maxRetries \in 0..MostRetries : withRetry(maxRetries)
    \/ fnResolves
    \/ \E error \in Failures : fnRejects(error)
    \/ delayElapses

SpecRetry == InitRetry /\ [][NextRetry]_vars

(***************************************************************************)
(* Reading the record of a pass.                                           *)
(***************************************************************************)
CreateOps == {"createObjective", "createTask"}
ObjectivePhaseOps == {"getObjectives", "createObjective", "getObjective"}
TaskPhaseOps == {"getTasks", "createTask", "updateTask"}

CallsOf(log, ops) == {x \in DOMAIN log : log[x].op \in ops}
FailedCalls(log, ops) == {x \in CallsOf(log, ops) : log[x].outcome = "failed"}

(***************************************************************************)
(* C1. Idempotence of syncAll: when an authenticated pass has completed    *)
(* and a second pass runs with nothing changed in between, the second pass *)
(* issues no createObjective and no createTask call and leaves idMapping   *)
(* as the first pass left it.  Stated for two consecutive passes of a      *)
(* behaviour in which no network call failed.                              *)
(***************************************************************************)
C1_Idempotence ==
    \A p \in 2..Len(passes) :
        faults = 0 =>
            /\ CallsOf(passes[p].frame.log, CreateOps) = {}
            /\ passes[p].idMapping = passes[p - 1].idMapping

(***************************************************************************)
(* C2. Name-based convergence.  The frame of an invocation is in its task  *)
(* phase exactly when its syncObjectives has returned.                     *)
(***************************************************************************)
ObjectivesDone(f) == f.pc \in TaskPhaseOps

\* local objective x of f has a name that equals, after lower-casing, the
\* name of remote objective y, and no remote objective has its identifier
NameTwin(f, x, y) ==
    /\ toLowerCase(f.localObjectives[x].name) = toLowerCase(f.remoteObjectives[y].name)
    /\ ~HasId(f.remoteObjectives, f.localObjectives[x].id)

NoCreateFor(f, id) ==
    \A c \in CallsOf(f.log, {"createObjective"}) : f.log[c].about # id

\* C2 as claimed: after syncObjectives the local identifier is mapped to the
\* identifier of every remote objective of that name, and no createObjective
\* call was issued for the local objective
C2_NameConvergence ==
    \A s \in Slots :
        ObjectivesDone(frames[s]) =>
            \A x \in DOMAIN frames[s].localObjectives :
                \A y \in DOMAIN frames[s].remoteObjectives :
                    NameTwin(frames[s], x, y) =>
                        /\ MapHas(idMapping, frames[s].localObjectives[x].id)
                        /\ idMapping[frames[s].localObjectives[x].id] =
                               frames[s].remoteObjectives[y].id
                        /\ NoCreateFor(frames[s], frames[s].localObjectives[x].id)

\* C2 as amended: after syncObjectives the local identifier is mapped to the
\* identifier of the last remote objective of that name in the fetched list
\* (the only one, when the name is not repeated), and no createObjective call
\* was issued for the local objective
C2_NameConvergenceLast ==
    \A s \in Slots :
        ObjectivesDone(frames[s]) =>
            \A x \in DOMAIN frames[s].localObjectives :
                \A y \in DOMAIN frames[s].remoteObjectives :
                    (/\ NameTwin(frames[s], x, y)
                     /\ \A z \in DOMAIN frames[s].remoteObjectives :
                            NameTwin(frames[s], x, z) => z <= y) =>
                        /\ MapHas(idMapping, frames[s].localObjectives[x].id)
                        /\ idMapping[frames[s].localObjectives[x].id] =
                               frames[s].remoteObjectives[y].id
                        /\ NoCreateFor(frames[s], frames[s].localObjectives[x].id)

\* a local objective was matched to a remote one whose name differs in case
C2_Witness ==
    \E s \in Slots :
        /\ ObjectivesDone(frames[s])
        /\ \E x \in DOMAIN frames[s].localObjectives :
               \E y \in DOMAIN frames[s].remoteObjectives :
                   /\ NameTwin(frames[s], x, y)
                   /\ frames[s].localObjectives[x].name # frames[s].remoteObjectives[y].name
                   /\ MapHas(idMapping, frames[s].localObjectives[x].id)
                   /\ idMapping[frames[s].localObjectives[x].id] =
                          frames[s].remoteObjectives[y].id
                   /\ frames[s].localObjectives[x].id # frames[s].remoteObjectives[y].id

(***************************************************************************)
(* C3. Deferred task upload.  In a local task absent from the fetched      *)
(* remote set, a missing idMapping entry for its objectiveId means no      *)
(* createTask call and no error in that pass; a present entry (in a later  *)
(* pass, for a task skipped before) means a createTask call whose          *)
(* objectiveId is the mapped identifier.                                   *)
(***************************************************************************)
\* the local tasks the upload loop of f has dealt with so far
Uploaded(f) ==
    IF f.pc = "createTask" THEN 1..f.k
    ELSE IF f.pc \in {"updateTask", "finish"} THEN DOMAIN f.localTasks
    ELSE {}

CreateTaskCallsFor(f, id) ==
    {c \in CallsOf(f.log, {"createTask"}) : f.log[c].about = id}

DeferredRule(f, m) ==
    /\ Len(f.taskErrors) = Cardinality(FailedCalls(f.log, {"createTask"}))
    /\ \A x \in Uploaded(f) :
           LET t == f.localTasks[x]
           IN  ~HasId(f.remoteTasks, t.id) =>
                   IF MapHas(m, t.objectiveId)
                   THEN \E c \in CreateTaskCallsFor(f, t.id) :
                            f.log[c].payload.objectiveId = m[t.objectiveId]
                   ELSE /\ CreateTaskCallsFor(f, t.id) = {}
                        /\ \A e \in DOMAIN f.taskErrors :
                               f.taskErrors[e] # FailedToUploadTask(t.title)

C3_DeferredUpload ==
    /\ \A s \in Slots : DeferredRule(frames[s], idMapping)
    /\ \A p \in DOMAIN passes :
           ~passes[p].escaped => DeferredRule(passes[p].frame, passes[p].idMapping)

\* a task skipped in an earlier pass is now uploaded under the mapped objective
C3_Witness ==
    \E s \in Slots :
        \E x \in Uploaded(frames[s]) :
            LET t == frames[s].localTasks[x]
            IN  /\ t.id \in deferredEarlier
                /\ MapHas(idMapping, t.objectiveId)
                /\ idMapping[t.objectiveId] # t.objectiveId
                /\ \E c \in CreateTaskCallsFor(frames[s], t.id) :
                       frames[s].log[c].payload.objectiveId = idMapping[t.objectiveId]

(***************************************************************************)
(* C4. Asymmetric failure handling.  A failed updateTask call adds nothing *)
(* to the error lists and, being the only failure of a pass, leaves the    *)
(* pass with status 'success' and success = true; each failed              *)
(* createObjective or createTask call adds one entry, and a pass with such *)
(* a failure ends with status 'error' and success = false.                 *)
(***************************************************************************)
NetworkOps == ObjectivePhaseOps \cup TaskPhaseOps

OneErrorPerFailedCreate(f) ==
    /\ Len(f.objErrors) = Cardinality(FailedCalls(f.log, {"createObjective"}))
    /\ Len(f.taskErrors) = Cardinality(FailedCalls(f.log, {"createTask"}))

OnlyStatusPushesFailed(f) ==
    /\ FailedCalls(f.log, {"updateTask"}) # {}
    /\ FailedCalls(f.log, NetworkOps) = FailedCalls(f.log, {"updateTask"})

C4_AsymmetricFailure ==
    /\ \A s \in Slots : OneErrorPerFailedCreate(frames[s])
    /\ \A p \in DOMAIN passes :
           LET f == passes[p].frame
           IN  /\ OneErrorPerFailedCreate(f)
               /\ OnlyStatusPushesFailed(f) =>
                      /\ passes[p].state.status = "success"
                      /\ passes[p].result.success
               /\ FailedCalls(f.log, CreateOps) # {} =>
                      /\ passes[p].state.status = "error"
                      /\ ~passes[p].result.success

\* one pass ended well although a status push failed, another ended in
\* 'error' after a failed creation
C4_Witness ==
    \E p, q \in DOMAIN passes :
        /\ OnlyStatusPushesFailed(passes[p].frame)
        /\ passes[p].state.status = "success"
        /\ FailedCalls(passes[q].frame.log, CreateOps) # {}
        /\ passes[q].state.status = "error"

(***************************************************************************)
(* C5. Ordering.  In a pass that issues createObjective for a local        *)
(* objective, a createTask call for a local-only task of that objective is *)
(* issued only after a createObjective call for it has answered with       *)
(* success and idMapping holds the identifier that call submitted.         *)
(***************************************************************************)
CreateObjectiveCallsFor(f, id) ==
    {d \in CallsOf(f.log, {"createObjective"}) : f.log[d].about = id}

TaskAbout(f, id) ==
    f.localTasks[CHOOSE x \in DOMAIN f.localTasks : f.localTasks[x].id = id]

CreatedBefore(f, m) ==
    \A c \in CallsOf(f.log, {"createTask"}) :
        LET objectiveId == TaskAbout(f, f.log[c].about).objectiveId
        IN  CreateObjectiveCallsFor(f, objectiveId) # {} =>
                \E d \in CreateObjectiveCallsFor(f, objectiveId) :
                    /\ d < c
                    /\ f.log[d].outcome = "ok"
                    /\ MapHas(m, objectiveId)
                    /\ m[objectiveId] = f.log[d].payload.id
                    /\ f.log[c].payload.objectiveId = f.log[d].payload.id

C5_Ordering ==
    /\ \A s \in Slots : CreatedBefore(frames[s], idMapping)
    /\ \A p \in DOMAIN passes : CreatedBefore(passes[p].frame, passes[p].idMapping)

\* a task of an objective created in this pass is being created
C5_Witness ==
    \E s \in Slots :
        /\ frames[s].pc = "createTask"
        /\ CreateObjectiveCallsFor(frames[s],
               TaskAbout(frames[s], Pending(s).about).objectiveId) # {}

(***************************************************************************)
(* C6. Download materialization.  Once syncObjectives has returned, every  *)
(* remote objective of the fetched list whose identifier c no local        *)
(* objective had at the start has had its detail fetched, the store holds, *)
(* behind the objectives it started with, an objective with identifier c   *)
(* whose metrics have an empty history and whose rituals have an empty     *)
(* completionHistory and completionsThisPeriod = 0, and idMapping[c] = c.  *)
(***************************************************************************)
Fresh(objective) ==
    /\ \A x \in DOMAIN objective.metrics : objective.metrics[x].history = <<>>
    /\ \A x \in DOMAIN objective.rituals :
           /\ objective.rituals[x].completionHistory = <<>>
           /\ objective.rituals[x].completionsThisPeriod = 0

ToDownload(f) ==
    {y \in DOMAIN f.remoteObjectives :
        ~HasId(f.localObjectives, f.remoteObjectives[y].id)}

Materialized(f, m) ==
    \A y \in ToDownload(f) :
        LET c == f.remoteObjectives[y].id
        IN  /\ \E d \in CallsOf(f.log, {"getObjective"}) :
                   f.log[d].about = c /\ f.log[d].outcome = "ok"
            /\ \E x \in (Len(f.localObjectives) + 1)..Len(localObjectives) :
                   localObjectives[x].id = c /\ Fresh(localObjectives[x])
            /\ MapHas(m, c)
            /\ m[c] = c

C6_DownloadMaterialization ==
    /\ \A s \in Slots :
           ObjectivesDone(frames[s]) => Materialized(frames[s], idMapping)
    /\ \A p \in DOMAIN passes :
           (~passes[p].escaped \/ CallsOf(passes[p].frame.log, {"getTasks"}) # {}) =>
               Materialized(passes[p].frame, passes[p].idMapping)

\* a remote objective with recorded entries and completions was downloaded
C6_Witness ==
    \E s \in Slots :
        /\ ObjectivesDone(frames[s])
        /\ \E y \in ToDownload(frames[s]) :
               /\ \E x \in DOMAIN frames[s].remoteObjectives[y].metrics :
                      frames[s].remoteObjectives[y].metrics[x].entries # <<>>
               /\ \E x \in DOMAIN frames[s].remoteObjectives[y].rituals :
                      frames[s].remoteObjectives[y].rituals[x].completions # <<>>

(***************************************************************************)
(* C7. Unauthenticated guard.  A call of syncAll while isAuthenticated is  *)
(* false returns {success: false} with an error and changes nothing else:  *)
(* not syncState, not idMapping, not the stores; no listener is invoked    *)
(* and no network call is issued.                                          *)
(***************************************************************************)
C7_UnauthenticatedGuard ==
    [][(~isAuthenticated /\ results' # results) =>
           /\ results' = Append(results, [success |-> FALSE, error |-> NotAuthenticated])
           /\ UNCHANGED <<syncState, idMapping, localObjectives, localTasks,
                          remoteObjectives, remoteTasks, notified, frames, passes,
                          nextId>>]_vars

\* after a pass and a sign-out, syncAll was called and refused
C7_Witness ==
    /\ passes # <<>>
    /\ ~isAuthenticated
    /\ results[Len(results)] = [success |-> FALSE, error |-> NotAuthenticated]
    /\ syncState = passes[Len(passes)].state
    /\ Len(notified) = 2 * Len(passes)

(***************************************************************************)
(* C8. Aggregation.  A pass that ends without an escaping exception has    *)
(* status 'success' exactly when the objective errors followed by the task *)
(* errors are the empty list; otherwise the status is 'error', the error   *)
(* text carries the length of that list, which is the number of failed     *)
(* createObjective and createTask calls; success is true exactly when the  *)
(* status is 'success'.                                                    *)
(***************************************************************************)
C8_Aggregation ==
    \A p \in DOMAIN passes :
        LET f == passes[p].frame
            errors == f.objErrors \o f.taskErrors
        IN  ~passes[p].escaped =>
                /\ passes[p].state.status = "success" <=> errors = <<>>
                /\ errors # <<>> =>
                       /\ passes[p].state.status = "error"
                       /\ passes[p].state.error = ItemsFailed(Len(errors))
                       /\ Len(errors) = Cardinality(FailedCalls(f.log, CreateOps))
                /\ errors = <<>> => passes[p].state.error = Null
                /\ passes[p].result.success <=> passes[p].state.status = "success"

\* a pass ended with one failed item of each phase
C8_Witness ==
    \E q \in DOMAIN passes :
        /\ ~passes[q].escaped
        /\ Len(passes[q].frame.objErrors) = 1
        /\ Len(passes[q].frame.taskErrors) = 1
        /\ passes[q].state.error = ItemsFailed(2)
        /\ ~passes[q].result.success

(***************************************************************************)
(* C9. Orchestration-level exception.  When a call outside the per-entity  *)
(* try blocks fails (getObjectives, getObjective, getTasks), syncAll sets  *)
(* the status to 'error' with the message of the exception, notifies the   *)
(* listeners, returns {success: false, error: message}, and the invocation *)
(* issues no further network call.                                         *)
(***************************************************************************)
OutsideTry == {"getObjectives", "getObjective", "getTasks"}

C9_OrchestrationException ==
    [][\A s \in Slots :
           (frames[s].pc \in OutsideTry /\ faults' # faults) =>
               /\ syncState' = [status |-> "error",
                                lastSyncAt |-> syncState.lastSyncAt,
                                error |-> UnableToConnect]
               /\ notified' = Append(notified, syncState')
               /\ results' = Append(results,
                                    [success |-> FALSE, error |-> UnableToConnect])
               /\ frames'[s] = IdleFrame
               /\ Len(passes') = Len(passes) + 1
               /\ passes'[Len(passes')].frame.log = Answered(frames[s], "failed").log
               /\ UNCHANGED <<remoteObjectives, remoteTasks, idMapping>>]_vars

\* an invocation ended in the catch block when api.getTasks failed
C9_Witness ==
    \E p \in DOMAIN passes :
        LET log == passes[p].frame.log
        IN  /\ passes[p].escaped
            /\ log[Len(log)].op = "getTasks"
            /\ log[Len(log)].outcome = "failed"
            /\ syncState.status = "error"
            /\ syncState.error = UnableToConnect
            /\ frames = [s \in Slots |-> IdleFrame]

(***************************************************************************)
(* C10. Phase ordering.  In the calls of one invocation every call of the  *)
(* objective phase (getObjectives, createObjective, getObjective) comes    *)
(* before every call of the task phase (getTasks, createTask, updateTask)  *)
(* and has been answered, with success or failure, when the first call of  *)
(* the task phase is issued.                                               *)
(***************************************************************************)
PhaseOrder(log) ==
    \A c \in CallsOf(log, TaskPhaseOps) :
        \A d \in CallsOf(log, ObjectivePhaseOps) :
            d < c /\ log[d].outcome # "pending"

C10_PhaseOrdering ==
    /\ \A s \in Slots : PhaseOrder(frames[s].log)
    /\ \A p \in DOMAIN passes : PhaseOrder(passes[p].frame.log)

\* calls of both phases and of every kind of the objective phase were issued
C10_Witness ==
    \E s \in Slots :
        /\ frames[s].pc = "createTask"
        /\ CallsOf(frames[s].log, {"createObjective"}) # {}
        /\ CallsOf(frames[s].log, {"getObjective"}) # {}
        /\ FailedCalls(frames[s].log, ObjectivePhaseOps) # {}

(***************************************************************************)
(* C11. Convergence without duplication.  After serialized passes in which *)
(* no call failed, the remote holds at most one objective created from a   *)
(* given local objective, and no two objectives of the local store resolve *)
(* to the same canonical identifier.                                       *)
(***************************************************************************)
\* the canonical identifier of a local identifier: its mapping, or itself
resolve(id, m) == IF MapHas(m, id) THEN m[id] ELSE id

CreatedFrom(id) ==
    UNION {{<<p, c>> : c \in {d \in CallsOf(passes[p].frame.log, {"createObjective"}) :
                                 /\ passes[p].frame.log[d].about = id
                                 /\ passes[p].frame.log[d].outcome = "ok"}} :
           p \in DOMAIN passes}

C11_NoDuplication ==
    (faults = 0 /\ InFlight = {} /\ passes # <<>>) =>
        /\ \A x \in DOMAIN localObjectives : \A y \in DOMAIN localObjectives :
               x # y => resolve(localObjectives[x].id, idMapping)
                            # resolve(localObjectives[y].id, idMapping)
        /\ \A x \in DOMAIN localObjectives :
               Cardinality(CreatedFrom(localObjectives[x].id)) <= 1

(***************************************************************************)
(* C12. Failed objective upload.  A createObjective call that fails leaves *)
(* exactly one error for its objective and, at the end of the pass, no     *)
(* idMapping entry for the objective, its pillars, metrics or rituals; the *)
(* next pass, the remote still lacking the objective, issues               *)
(* createObjective for it again.                                           *)
(***************************************************************************)
FailedUploads(f) ==
    SelectSeq(f.log, LAMBDA call : call.op = "createObjective" /\ call.outcome = "failed")

FamilyIds(objective) ==
    {objective.id} \cup Ids(objective.pillars) \cup Ids(objective.metrics)
        \cup Ids(objective.rituals)

C12_FailedObjectiveUpload ==
    \A p \in DOMAIN passes :
        LET f == passes[p].frame
        IN  /\ f.objErrors = [e \in DOMAIN FailedUploads(f) |->
                                 FailedToUploadObjective(FailedUploads(f)[e].payload.name)]
            /\ \A d \in FailedCalls(f.log, {"createObjective"}) :
                   LET local == GetById(f.localObjectives, f.log[d].about)
                   IN  /\ FamilyIds(local) \cap DOMAIN passes[p].idMapping = {}
                       /\ (/\ p < Len(passes)
                           /\ passes[p + 1].frame.log[1].outcome = "ok"
                           /\ ObjectiveMatch(local, passes[p + 1].frame.remoteObjectives)
                                  = "localOnly") =>
                              \E c \in CallsOf(passes[p + 1].frame.log, {"createObjective"}) :
                                  passes[p + 1].frame.log[c].about = local.id

\* an objective whose upload failed was uploaded by the next pass
C12_Witness ==
    /\ Len(passes) = 2
    /\ \E d \in FailedCalls(passes[1].frame.log, {"createObjective"}) :
           /\ Len(GetById(passes[1].frame.localObjectives,
                          passes[1].frame.log[d].about).pillars) > 0
           /\ \E c \in CallsOf(passes[2].frame.log, {"createObjective"}) :
                  /\ passes[2].frame.log[c].about = passes[1].frame.log[d].about
                  /\ passes[2].frame.log[c].outcome = "ok"

(***************************************************************************)
(* C13. 'overdue' is never transmitted.  Every updateTask call carries a   *)
(* status among pending, in_progress, completed, skipped, which is         *)
(* 'pending' for a local task that is 'overdue' and the local status       *)
(* otherwise; a createTask call carries no status.                         *)
(***************************************************************************)
ApiStatuses == {"pending", "in_progress", "completed", "skipped"}

NoOverdueSent(f) ==
    \A c \in DOMAIN f.log :
        /\ f.log[c].op = "updateTask" =>
               LET local == TaskAbout(f, f.log[c].about)
               IN  /\ f.log[c].payload.status \in ApiStatuses
                   /\ f.log[c].payload.status =
                          IF local.status = "overdue" THEN "pending" ELSE local.status
        /\ f.log[c].op = "createTask" =>
               "status" \notin DOMAIN f.log[c].payload

C13_OverdueNeverSent ==
    /\ \A s \in Slots : NoOverdueSent(frames[s])
    /\ \A p \in DOMAIN passes : NoOverdueSent(passes[p].frame)

\* the status of an overdue local task is being pushed
C13_Witness ==
    \E s \in Slots :
        /\ frames[s].pc = "updateTask"
        /\ TaskAbout(frames[s], Pending(s).about).status = "overdue"
        /\ Pending(s).payload.status = "pending"

(***************************************************************************)
(* C14. Session-scoped identity mapping.  idMapping is rebuilt on every    *)
(* invocation of syncAll: when a pass starts (its first call, getObjectives,*)
(* is outstanding) idMapping holds no entry.                               *)
(***************************************************************************)
C14_SessionScoped ==
    \A s \in Slots : frames[s].pc = "getObjectives" => idMapping = EmptyMap

(***************************************************************************)
(* C15. Task window.  A local task scheduled on another day than today     *)
(* never causes a createTask or an updateTask call.                        *)
(***************************************************************************)
OnlyTodaysTasks(f) ==
    \A c \in CallsOf(f.log, {"createTask", "updateTask"}) :
        TaskAbout(f, f.log[c].about).scheduledAt = "today"

C15_TaskWindow ==
    /\ \A s \in Slots : OnlyTodaysTasks(frames[s])
    /\ \A p \in DOMAIN passes : OnlyTodaysTasks(passes[p].frame)

(***************************************************************************)
(* C16. No deletion or rewrite.  Every step leaves the objectives and the  *)
(* tasks of the local store in place, unchanged, and at most appends to    *)
(* them; the calls issued are those of the two phases, none of which       *)
(* deletes, and the remote loses no objective and no task.                 *)
(***************************************************************************)
IsPrefix(a, b) == Len(a) <= Len(b) /\ SubSeq(b, 1, Len(a)) = a

C16_NoDeletion ==
    [][/\ IsPrefix(localObjectives, localObjectives')
       /\ IsPrefix(localTasks, localTasks')
       /\ \A s \in Slots : \A c \in DOMAIN frames'[s].log :
              frames'[s].log[c].op \in NetworkOps
       /\ Ids(remoteObjectives) \subseteq Ids(remoteObjectives')
       /\ Ids(remoteTasks) \subseteq Ids(remoteTasks')]_vars

\* a pass that started with objectives and tasks added more of both
C16_Witness ==
    /\ passes # <<>>
    /\ passes[1].frame.localObjectives # <<>>
    /\ passes[1].frame.localTasks # <<>>
    /\ Len(localObjectives) > Len(passes[1].frame.localObjectives)
    /\ Len(localTasks) > Len(passes[1].frame.localTasks)

(***************************************************************************)
(* C17. lastSyncAt is the last successful completion time.  In the         *)
(* snapshots handed to the listeners lastSyncAt differs from the one       *)
(* before only in a snapshot whose status is 'success'.                    *)
(***************************************************************************)
C17_LastSyncAtOnSuccess ==
    \A n \in DOMAIN notified :
        LET before == IF n = 1 THEN NeverSynced ELSE notified[n - 1].lastSyncAt
        IN  notified[n].lastSyncAt # before => notified[n].status = "success"

(***************************************************************************)
(* C18. Duplicate remote names.  When several remote objectives have names *)
(* that are equal after lower-casing, a local objective matched by name is *)
(* mapped to one of them, fixed by its place in the remote list: the first *)
(* (C18_FirstWins), or the last (C18_LastWins).                            *)
(***************************************************************************)
SameNamed(f, x) ==
    {y \in DOMAIN f.remoteObjectives :
        toLowerCase(f.remoteObjectives[y].name) = toLowerCase(f.localObjectives[x].name)}

MatchedAmongSeveral(f) ==
    {x \in DOMAIN f.localObjectives :
        /\ ObjectiveMatch(f.localObjectives[x], f.remoteObjectives) = "byName"
        /\ Cardinality(SameNamed(f, x)) > 1}

C18_FirstWins ==
    \A s \in Slots :
        ObjectivesDone(frames[s]) =>
            \A x \in MatchedAmongSeveral(frames[s]) :
                /\ MapHas(idMapping, frames[s].localObjectives[x].id)
                /\ idMapping[frames[s].localObjectives[x].id] =
                       frames[s].remoteObjectives[FirstIndex(SameNamed(frames[s], x))].id

C18_LastWins ==
    \A s \in Slots :
        ObjectivesDone(frames[s]) =>
            \A x \in MatchedAmongSeveral(frames[s]) :
                /\ MapHas(idMapping, frames[s].localObjectives[x].id)
                /\ idMapping[frames[s].localObjectives[x].id] =
                       frames[s].remoteObjectives[LastIndex(SameNamed(frames[s], x))].id

\* a local objective was matched by name among two remote objectives
C18_Witness ==
    \E s \in Slots :
        /\ ObjectivesDone(frames[s])
        /\ \E x \in MatchedAmongSeveral(frames[s]) :
               /\ MapHas(idMapping, frames[s].localObjectives[x].id)
               /\ idMapping[frames[s].localObjectives[x].id] #
                      frames[s].remoteObjectives[FirstIndex(SameNamed(frames[s], x))].id

(***************************************************************************)
(* C19. Per-item failures do not stop the loops.  After a failed           *)
(* createObjective call every later local objective is matched or          *)
(* uploaded and the download step runs; after a failed createTask call     *)
(* every later local task is dealt with, the statuses are pushed and the   *)
(* remote tasks are downloaded.                                            *)
(***************************************************************************)
PositionOf(list, id) == FirstIndex({x \in DOMAIN list : list[x].id = id})

CallsAfter(f, d, op, id) ==
    {c \in CallsOf(f.log, {op}) : c > d /\ f.log[c].about = id}

ObjectiveLoopsGoOn(f, m) ==
    \A d \in FailedCalls(f.log, {"createObjective"}) :
        /\ \A x \in DOMAIN f.localObjectives :
               x > PositionOf(f.localObjectives, f.log[d].about) =>
                   IF ObjectiveMatch(f.localObjectives[x], f.remoteObjectives) = "localOnly"
                   THEN CallsAfter(f, d, "createObjective", f.localObjectives[x].id) # {}
                   ELSE MapHas(m, f.localObjectives[x].id)
        /\ \A y \in ToDownload(f) :
               \/ CallsAfter(f, d, "getObjective", f.remoteObjectives[y].id) # {}
               \/ \E c \in FailedCalls(f.log, {"getObjective"}) : c > d

TaskLoopsGoOn(f, m) ==
    \A d \in FailedCalls(f.log, {"createTask"}) :
        /\ \A x \in DOMAIN f.localTasks :
               (/\ x > PositionOf(f.localTasks, f.log[d].about)
                /\ TaskFate(f.localTasks[x], f.remoteTasks, m) = "upload") =>
                   CallsAfter(f, d, "createTask", f.localTasks[x].id) # {}
        /\ \A x \in DOMAIN f.localTasks :
               NeedsStatusPush(f.localTasks[x], f.remoteTasks) =>
                   CallsAfter(f, d, "updateTask", f.localTasks[x].id) # {}
        /\ \A y \in DOMAIN f.remoteTasks :
               HasId(localTasks, f.remoteTasks[y].id)

C19_LoopsGoOn ==
    \A p \in DOMAIN passes :
        /\ ObjectiveLoopsGoOn(passes[p].frame, passes[p].idMapping)
        /\ TaskLoopsGoOn(passes[p].frame, passes[p].idMapping)

\* a later objective was uploaded after a failed upload, and a later task
\* was uploaded or pushed after a failed task upload
C19_Witness ==
    \E p, q \in DOMAIN passes :
        /\ \E d \in FailedCalls(passes[p].frame.log, {"createObjective"}) :
               \E c \in CallsOf(passes[p].frame.log, {"createObjective"}) : c > d
        /\ \E d \in FailedCalls(passes[q].frame.log, {"createTask"}) :
               \E c \in CallsOf(passes[q].frame.log, {"createTask", "updateTask"}) : c > d

(***************************************************************************)
(* C20. Reuse-or-mint.  The identifier sent for an uploaded objective,     *)
(* pillar, metric, ritual or task is the local identifier when that is     *)
(* UUID-shaped and a generated identifier, used nowhere else, otherwise;   *)
(* after a successful createObjective the objective and its children are   *)
(* registered in idMapping as local identifier -> sent identifier.         *)
(***************************************************************************)
ReusedOrMinted(localId, sentId) ==
    IF isValidUUID(localId) THEN sentId = localId
    ELSE isValidUUID(sentId) /\ sentId.origin = "generated"

ChildrenReusedOrMinted(localChildren, sentChildren) ==
    /\ Len(localChildren) = Len(sentChildren)
    /\ \A x \in DOMAIN localChildren :
           ReusedOrMinted(localChildren[x].id, sentChildren[x].id)

ChildrenRegistered(localChildren, sentChildren, m) ==
    \A x \in DOMAIN localChildren :
        MapHas(m, localChildren[x].id) /\ m[localChildren[x].id] = sentChildren[x].id

\* the identifiers of a creation payload
SentIds(call) ==
    IF call.op = "createObjective"
    THEN <<call.payload.id>> \o [x \in DOMAIN call.payload.pillars |-> call.payload.pillars[x].id]
             \o [x \in DOMAIN call.payload.metrics |-> call.payload.metrics[x].id]
             \o [x \in DOMAIN call.payload.rituals |-> call.payload.rituals[x].id]
    ELSE <<call.payload.id>>

MintedAt(call) == {x \in DOMAIN SentIds(call) : SentIds(call)[x].origin = "generated"}

SentAsMinted(f, m) ==
    \A c \in CallsOf(f.log, CreateOps) :
        IF f.log[c].op = "createTask"
        THEN ReusedOrMinted(f.log[c].about, f.log[c].payload.id)
        ELSE LET local == GetById(f.localObjectives, f.log[c].about)
                 sent == f.log[c].payload
             IN  /\ ReusedOrMinted(local.id, sent.id)
                 /\ ChildrenReusedOrMinted(local.pillars, sent.pillars)
                 /\ ChildrenReusedOrMinted(local.metrics, sent.metrics)
                 /\ ChildrenReusedOrMinted(local.rituals, sent.rituals)
                 /\ f.log[c].outcome = "ok" =>
                        /\ MapHas(m, local.id) /\ m[local.id] = sent.id
                        /\ ChildrenRegistered(local.pillars, sent.pillars, m)
                        /\ ChildrenRegistered(local.metrics, sent.metrics, m)
                        /\ ChildrenRegistered(local.rituals, sent.rituals, m)

\* the logs of the finished passes (positive) and of the frames (negative)
LogIds == (DOMAIN passes) \cup {0 - s : s \in Slots}
LogOf(l) == IF l > 0 THEN passes[l].frame.log ELSE frames[0 - l].log
MintedIds(call) == {id \in Range(SentIds(call)) : id.origin = "generated"}

\* no generated identifier is sent twice, in one payload or in two
MintedOnce ==
    \A l \in LogIds :
        LET log == LogOf(l)
        IN  \A c \in CallsOf(log, CreateOps) :
                LET mine == MintedIds(log[c])
                IN  /\ Cardinality(mine) = Cardinality(MintedAt(log[c]))
                    /\ \A k \in LogIds :
                           LET other == LogOf(k)
                           IN  \A d \in CallsOf(other, CreateOps) :
                                   <<l, c>> # <<k, d>> =>
                                       mine \cap MintedIds(other[d]) = {}

C20_ReuseOrMint ==
    /\ \A s \in Slots : SentAsMinted(frames[s], idMapping)
    /\ \A p \in DOMAIN passes : SentAsMinted(passes[p].frame, passes[p].idMapping)
    /\ MintedOnce

\* an objective with a token identifier, children of both shapes and a task
\* with a token identifier were uploaded
C20_Witness ==
    \E s \in Slots :
        /\ frames[s].pc = "createTask"
        /\ ~isValidUUID(Pending(s).about)
        /\ \E c \in CallsOf(frames[s].log, {"createObjective"}) :
               /\ frames[s].log[c].outcome = "ok"
               /\ ~isValidUUID(frames[s].log[c].about)
               /\ Cardinality(MintedAt(frames[s].log[c])) = 3
               /\ Len(SentIds(frames[s].log[c])) = 4

(***************************************************************************)
(* C21. Owning-pillar references in the objective creation payload.  In    *)
(* every createObjective call, a metric or ritual whose owning pillar is   *)
(* one of the objective's pillars is sent with the identifier the same     *)
(* payload carries for that pillar (a generated one when the pillar's      *)
(* local identifier is not a UUID), and a metric or ritual without an      *)
(* owning pillar is sent without pillarId.                                 *)
(***************************************************************************)
\* local of the upload loop when the call about id was issued
ObjectiveAbout(f, id) ==
    f.localObjectives[CHOOSE x \in DOMAIN f.localObjectives :
                          f.localObjectives[x].id = id]

\* the children of one kind and what the payload carries for them
OwningPillarSent(local, payload, localChildren, sentChildren) ==
    \A x \in DOMAIN localChildren :
        IF localChildren[x].pillarId = NoId
        THEN sentChildren[x].pillarId = NoId
        ELSE \A y \in DOMAIN local.pillars :
                 local.pillars[y].id = localChildren[x].pillarId =>
                     /\ sentChildren[x].pillarId = payload.pillars[y].id
                     /\ isValidUUID(sentChildren[x].pillarId)

OwningPillarsResolved(f, c) ==
    LET local == ObjectiveAbout(f, f.log[c].about)
        payload == f.log[c].payload
    IN  /\ OwningPillarSent(local, payload, local.metrics, payload.metrics)
        /\ OwningPillarSent(local, payload, local.rituals, payload.rituals)

C21_OwningPillar ==
    \A s \in Slots :
        frames[s].pc = "createObjective" =>
            OwningPillarsResolved(frames[s], Len(frames[s].log))

\* one pass has sent a metric under the generated identifier of its pillar,
\* whose local identifier is not a UUID, and a metric without owning pillar
C21_Witness ==
    \E s \in Slots :
        LET f == frames[s]
        IN  /\ \E c \in CallsOf(f.log, {"createObjective"}) :
                   LET local == ObjectiveAbout(f, f.log[c].about)
                   IN  \E x \in DOMAIN local.metrics :
                           /\ local.metrics[x].pillarId # NoId
                           /\ ~isValidUUID(local.metrics[x].pillarId)
                           /\ f.log[c].payload.metrics[x].pillarId.origin = "generated"
                           /\ f.log[c].payload.metrics[x].pillarId =
                                  f.log[c].payload.pillars[1].id
            /\ \E c \in CallsOf(f.log, {"createObjective"}) :
                   LET local == ObjectiveAbout(f, f.log[c].about)
                   IN  \E x \in DOMAIN local.metrics :
                           /\ local.metrics[x].pillarId = NoId
                           /\ f.log[c].payload.metrics[x].pillarId = NoId

(***************************************************************************)
(* C22. Child reconciliation by name.  For a local objective matched to a  *)
(* remote objective by identifier or by name, each local pillar, metric    *)
(* and ritual whose lower-cased name equals that of a child in the remote  *)
(* objective's corresponding collection is registered local child id ->    *)
(* remote child id; a local child without such a match gets no entry in    *)
(* that pass, no createObjective call is issued for its parent and no      *)
(* error is recorded.                                                      *)
(***************************************************************************)
\* the local objectives the upload loop of f has dealt with so far
Scanned(f) ==
    IF f.pc = "getObjectives" THEN {}
    ELSE IF f.pc = "createObjective" THEN 1..(f.i - 1)
    ELSE DOMAIN f.localObjectives

MatchedObjective(f, x) ==
    \/ HasId(f.remoteObjectives, f.localObjectives[x].id)
    \/ \E y \in DOMAIN f.remoteObjectives :
           toLowerCase(f.remoteObjectives[y].name) =
               toLowerCase(f.localObjectives[x].name)

\* children of one kind: m is idMapping now, m0 idMapping when the pass began
ChildrenReconciled(localChildren, remoteChildren, m, m0) ==
    \A x \in DOMAIN localChildren :
        LET lc == localChildren[x]
            twins == {y \in DOMAIN remoteChildren :
                        toLowerCase(remoteChildren[y].name) = toLowerCase(lc.name)}
        IN  IF twins # {}
            THEN /\ MapHas(m, lc.id)
                 /\ \E y \in twins : m[lc.id] = remoteChildren[y].id
            ELSE /\ MapHas(m, lc.id) <=> MapHas(m0, lc.id)
                 /\ MapHas(m0, lc.id) => m[lc.id] = m0[lc.id]

ChildRule(f, m, m0) ==
    \A x \in Scanned(f) :
        MatchedObjective(f, x) =>
            LET local == f.localObjectives[x]
            IN  /\ MapHas(m, local.id)
                /\ HasId(f.remoteObjectives, m[local.id])
                /\ LET remote == GetById(f.remoteObjectives, m[local.id])
                   IN  /\ ChildrenReconciled(local.pillars, remote.pillars, m, m0)
                       /\ ChildrenReconciled(local.metrics, remote.metrics, m, m0)
                       /\ ChildrenReconciled(local.rituals, remote.rituals, m, m0)
                /\ NoCreateFor(f, local.id)
                /\ \A e \in DOMAIN f.objErrors :
                       f.objErrors[e] # FailedToUploadObjective(local.name)

\* idMapping as pass p found it
MappingBefore(p) == IF p = 1 THEN EmptyMap ELSE passes[p - 1].idMapping

C22_ChildReconciliation ==
    /\ \A s \in InFlight :
           ChildRule(frames[s], idMapping, MappingBefore(Len(passes) + 1))
    /\ \A p \in DOMAIN passes :
           ChildRule(passes[p].frame, passes[p].idMapping, MappingBefore(p))

\* a matched objective with a child found by name under another identifier
\* and a child the remote objective does not have
C22_Witness ==
    \E s \in InFlight :
        \E x \in Scanned(frames[s]) :
            LET local == frames[s].localObjectives[x]
            IN  /\ MatchedObjective(frames[s], x)
                /\ \E y \in DOMAIN local.metrics :
                       /\ MapHas(idMapping, local.metrics[y].id)
                       /\ idMapping[local.metrics[y].id] # local.metrics[y].id
                /\ \E y \in DOMAIN local.rituals :
                       ~MapHas(idMapping, local.rituals[y].id)

(***************************************************************************)
(* C23. Identifier match takes precedence over name match.  When a remote  *)
(* objective has the identifier of a local objective, the local identifier *)
(* is registered to itself and the children are reconciled against that    *)
(* remote objective, also when another remote objective has the same name  *)
(* up to case.                                                             *)
(***************************************************************************)
\* every local child with a twin in remoteChildren is registered to a twin
RegisteredAgainst(localChildren, remoteChildren, m) ==
    \A x \in DOMAIN localChildren :
        LET twins == {y \in DOMAIN remoteChildren :
                        toLowerCase(remoteChildren[y].name) =
                            toLowerCase(localChildren[x].name)}
        IN  twins # {} =>
                /\ MapHas(m, localChildren[x].id)
                /\ \E y \in twins : m[localChildren[x].id] = remoteChildren[y].id

IdentifierFirst(f, m) ==
    \A x \in Scanned(f) :
        LET local == f.localObjectives[x]
        IN  HasId(f.remoteObjectives, local.id) =>
                /\ MapHas(m, local.id)
                /\ m[local.id] = local.id
                /\ LET remote == GetById(f.remoteObjectives, local.id)
                   IN  /\ RegisteredAgainst(local.pillars, remote.pillars, m)
                       /\ RegisteredAgainst(local.metrics, remote.metrics, m)
                       /\ RegisteredAgainst(local.rituals, remote.rituals, m)

C23_IdentifierFirst ==
    \A s \in InFlight : IdentifierFirst(frames[s], idMapping)

\* a local objective has the identifier of one remote objective and, up to
\* case, the name of another one that comes later in the fetched list
C23_Witness ==
    \E s \in InFlight :
        \E x \in Scanned(frames[s]) :
            LET f == frames[s]
                local == f.localObjectives[x]
            IN  /\ HasId(f.remoteObjectives, local.id)
                /\ local.pillars # <<>>
                /\ \E y \in DOMAIN f.remoteObjectives :
                       /\ f.remoteObjectives[y].id # local.id
                       /\ toLowerCase(f.remoteObjectives[y].name) =
                              toLowerCase(local.name)
                       /\ y = IndexByName(f.remoteObjectives, local.name)
                /\ idMapping[local.id] = local.id

(***************************************************************************)
(* C24. Synced entities are registered.  At the end of every pass, every   *)
(* objective, pillar, metric, ritual and task that the pass created        *)
(* remotely or downloaded has an entry in idMapping that leads from the    *)
(* identifier of its local representation to its canonical identifier.     *)
(***************************************************************************)
RegisteredTo(m, localId, canonicalId) ==
    MapHas(m, localId) /\ m[localId] = canonicalId

\* the children of one kind of a created objective
CreatedChildrenRegistered(localChildren, sentChildren, m) ==
    \A x \in DOMAIN localChildren :
        RegisteredTo(m, localChildren[x].id, sentChildren[x].id)

\* the children of one kind of a downloaded objective
DownloadedChildrenRegistered(children, m) ==
    \A x \in DOMAIN children : RegisteredTo(m, children[x].id, children[x].id)

SyncedRegistered(f, m) ==
    /\ \A c \in CallsOf(f.log, {"createObjective"}) :
           f.log[c].outcome = "ok" =>
               LET local == ObjectiveAbout(f, f.log[c].about)
                   sent == f.log[c].payload
               IN  /\ RegisteredTo(m, local.id, sent.id)
                   /\ CreatedChildrenRegistered(local.pillars, sent.pillars, m)
                   /\ CreatedChildrenRegistered(local.metrics, sent.metrics, m)
                   /\ CreatedChildrenRegistered(local.rituals, sent.rituals, m)
    /\ \A c \in CallsOf(f.log, {"getObjective"}) :
           f.log[c].outcome = "ok" =>
               LET remote == GetById(f.remoteObjectives, f.log[c].about)
               IN  /\ RegisteredTo(m, remote.id, remote.id)
                   /\ DownloadedChildrenRegistered(remote.pillars, m)
                   /\ DownloadedChildrenRegistered(remote.metrics, m)
                   /\ DownloadedChildrenRegistered(remote.rituals, m)
    /\ \A c \in CallsOf(f.log, {"createTask"}) :
           f.log[c].outcome = "ok" =>
               RegisteredTo(m, f.log[c].about, f.log[c].payload.id)
    /\ \A x \in DOMAIN f.remoteTasks :
           ~HasId(f.localTasks, f.remoteTasks[x].id) =>
               RegisteredTo(m, f.remoteTasks[x].id, f.remoteTasks[x].id)

C24_SyncedRegistered ==
    \A p \in DOMAIN passes :
        ~passes[p].escaped => SyncedRegistered(passes[p].frame, passes[p].idMapping)

(***************************************************************************)
(* C25. Task pillar/ritual reference resolution.  In every createTask      *)
(* payload, pillarId (and likewise ritualId) is the idMapping entry of the *)
(* local reference when there is one, else the local reference itself when *)
(* it is UUID-shaped, else the field is left out; a task without the local *)
(* reference is sent without the field.                                    *)
(***************************************************************************)
ReferenceSent(ref, sent, m) ==
    IF ref = NoId THEN sent = NoId
    ELSE IF MapHas(m, ref) THEN sent = m[ref]
    ELSE IF isValidUUID(ref) THEN sent = ref
    ELSE sent = NoId

C25_TaskReferences ==
    \A s \in InFlight :
        frames[s].pc = "createTask" =>
            LET local == TaskAbout(frames[s], Pending(s).about)
            IN  /\ ReferenceSent(local.pillarId, Pending(s).payload.pillarId, idMapping)
                /\ ReferenceSent(local.ritualId, Pending(s).payload.ritualId, idMapping)

\* a task is being created whose pillar, a token without an entry, was left
\* out and whose ritual, a UUID without an entry, was sent as it is
C25_Witness ==
    \E s \in InFlight :
        /\ frames[s].pc = "createTask"
        /\ LET local == TaskAbout(frames[s], Pending(s).about)
           IN  /\ local.pillarId # NoId
               /\ ~MapHas(idMapping, local.pillarId)
               /\ Pending(s).payload.pillarId = NoId
               /\ local.ritualId # NoId
               /\ ~MapHas(idMapping, local.ritualId)
               /\ Pending(s).payload.ritualId = local.ritualId

(***************************************************************************)
(* C26. Status push condition.  syncTasks issues an updateTask call for a  *)
(* local task if and only if a remote task with the same identifier is in  *)
(* the fetched remote set and the translated local status (overdue ->      *)
(* pending, otherwise unchanged) differs from the remote status; the call  *)
(* carries the translated status, the local completion instant and the     *)
(* local skip reason, and there is at most one such call per task per pass.*)
(***************************************************************************)
Translated(status) == IF status = "overdue" THEN "pending" ELSE status

\* the local tasks the status loop of f has dealt with so far
StatusScanned(f) ==
    IF f.pc = "updateTask" THEN 1..f.u
    ELSE IF f.pc = "finish" THEN DOMAIN f.localTasks
    ELSE {}

UpdateTaskCallsFor(f, id) ==
    {c \in CallsOf(f.log, {"updateTask"}) : f.log[c].about = id}

DiffersRemotely(f, t) ==
    \E y \in DOMAIN f.remoteTasks :
        /\ f.remoteTasks[y].id = t.id
        /\ f.remoteTasks[y].status # Translated(t.status)

StatusPushRule(f) ==
    \A x \in DOMAIN f.localTasks :
        LET t == f.localTasks[x]
            calls == UpdateTaskCallsFor(f, t.id)
        IN  /\ Cardinality(calls) <= 1
            /\ calls # {} <=> (x \in StatusScanned(f) /\ DiffersRemotely(f, t))
            /\ \A c \in calls :
                   f.log[c].payload = [status |-> Translated(t.status),
                                       completedAt |-> t.completedAt,
                                       skippedReason |-> t.skippedReason]

C26_StatusPush ==
    /\ \A s \in InFlight : StatusPushRule(frames[s])
    /\ \A p \in DOMAIN passes :
           ~passes[p].escaped => StatusPushRule(passes[p].frame)

\* the status loop passed a task whose status equals the remote one and
\* pushes 'pending' for an overdue task the backend holds as in progress
C26_Witness ==
    \E s \in InFlight :
        LET f == frames[s]
        IN  /\ f.pc = "updateTask"
            /\ TaskAbout(f, Pending(s).about).status = "overdue"
            /\ Pending(s).payload.status = "pending"
            /\ \E x \in 1..(f.u - 1) :
                   /\ HasId(f.remoteTasks, f.localTasks[x].id)
                   /\ ~DiffersRemotely(f, f.localTasks[x])
                   /\ UpdateTaskCallsFor(f, f.localTasks[x].id) = {}

(***************************************************************************)
(* C27. Task download.  When a pass ends, every task of the fetched remote *)
(* set whose identifier no local task had at the start of the task phase   *)
(* is appended to the local store exactly once, with the remote            *)
(* identifier, objectiveId, pillar and ritual references, status,          *)
(* completion instant and skip reason unchanged; a remote task whose       *)
(* identifier is already local is not inserted, and the local tasks stay   *)
(* as they are.                                                            *)
(***************************************************************************)
SameTask(local, remote) ==
    /\ local.id = remote.id
    /\ local.objectiveId = remote.objectiveId
    /\ local.pillarId = remote.pillarId
    /\ local.ritualId = remote.ritualId
    /\ local.status = remote.status
    /\ local.completedAt = remote.completedAt
    /\ local.skippedReason = remote.skippedReason

\* the positions of store that hold a task with identifier id
Copies(store, id) == {x \in DOMAIN store : store[x].id = id}

TaskDownloadStep ==
    (Len(passes') > Len(passes) /\ ~passes'[Len(passes')].escaped) =>
        LET f == passes'[Len(passes')].frame
        IN  /\ IsPrefix(localTasks, localTasks')
            /\ f.localTasks = localTasks
            /\ \A y \in DOMAIN f.remoteTasks :
                   LET id == f.remoteTasks[y].id
                   IN  IF HasId(f.localTasks, id)
                       THEN Copies(localTasks', id) = Copies(localTasks, id)
                       ELSE /\ Cardinality(Copies(localTasks', id)) = 1
                            /\ \A x \in Copies(localTasks', id) :
                                   SameTask(localTasks'[x], f.remoteTasks[y])
            /\ \A x \in (Len(localTasks) + 1)..Len(localTasks') :
                   HasId(f.remoteTasks, localTasks'[x].id)

C27_TaskDownload == [][TaskDownloadStep]_vars

\* a finished pass downloaded a task the backend holds as in progress and
\* left alone a local task whose status differs from the remote one
C27_Witness ==
    \E p \in DOMAIN passes :
        LET f == passes[p].frame
        IN  /\ ~passes[p].escaped
            /\ \E y \in DOMAIN f.remoteTasks :
                   /\ ~HasId(f.localTasks, f.remoteTasks[y].id)
                   /\ f.remoteTasks[y].status = "in_progress"
                   /\ \E x \in DOMAIN localTasks :
                          SameTask(localTasks[x], f.remoteTasks[y])
            /\ \E y \in DOMAIN f.remoteTasks :
                   \E x \in DOMAIN f.localTasks :
                       /\ f.localTasks[x].id = f.remoteTasks[y].id
                       /\ f.localTasks[x].status # f.remoteTasks[y].status
                       /\ localTasks[x] = f.localTasks[x]

(***************************************************************************)
(* C28. Listener notification.  The listeners are called on every          *)
(* transition of syncState with the snapshot that is current after it, so  *)
(* every authenticated invocation of syncAll calls a listener exactly      *)
(* twice, first with status 'syncing' and then with 'success' or 'error',  *)
(* an unauthenticated one not at all, and getSyncState returns at any time *)
(* the snapshot the listeners were handed last (or the initial idle state).*)
(***************************************************************************)
InitialSyncState == [status |-> "idle", lastSyncAt |-> NeverSynced, error |-> Null]

getSyncState == syncState

LastNotified ==
    IF notified = <<>> THEN InitialSyncState ELSE notified[Len(notified)]

C28_ListenerNotification ==
    /\ getSyncState = LastNotified
    /\ Len(notified) = 2 * Len(passes) + Cardinality(InFlight)
    /\ \A p \in DOMAIN passes :
           /\ notified[2 * p - 1].status = "syncing"
           /\ notified[2 * p].status \in {"success", "error"}
           /\ notified[2 * p] = passes[p].state
    /\ \A s \in InFlight : notified[Len(notified)].status = "syncing"

\* the listeners have seen one pass begin and end in 'error'; a call of
\* syncAll without a session has told them nothing
C28_Witness ==
    /\ Len(passes) = 1
    /\ Len(results) = 2
    /\ Len(notified) = 2
    /\ notified[1].status = "syncing"
    /\ notified[2].status = "error"

(***************************************************************************)
(* C29. Status state machine.  The status starts at 'idle'; the only       *)
(* transitions are idle|success|error -> syncing at the start of an        *)
(* authenticated invocation and syncing -> success or syncing -> error at  *)
(* its end; once an authenticated invocation has started, the status is    *)
(* never 'idle' again.  A transition is a step that changes the status.    *)
(***************************************************************************)
InvocationStarts == Cardinality(InFlight') > Cardinality(InFlight)
InvocationEnds == Len(passes') > Len(passes)

StatusStep ==
    /\ notified = <<>> => syncState.status = "idle"
    /\ notified # <<>> => syncState'.status # "idle"
    /\ syncState'.status # syncState.status =>
           \/ /\ InvocationStarts
              /\ syncState.status \in {"idle", "success", "error"}
              /\ syncState'.status = "syncing"
           \/ /\ InvocationEnds
              /\ syncState.status = "syncing"
              /\ syncState'.status \in {"success", "error"}

C29_StatusMachine == [][StatusStep]_vars

(***************************************************************************)
(* C30. Sequential network calls.  Within one invocation of syncAll at     *)
(* most one network call is outstanding at any time: a call is issued only *)
(* after the previous call of the invocation has returned or failed, and   *)
(* the createObjective, getObjective, createTask and updateTask calls go   *)
(* out in the order of the list their loop runs over.                      *)
(***************************************************************************)
Outstanding(log) == {c \in DOMAIN log : log[c].outcome = "pending"}

\* the calls of one loop follow the order of the list the loop runs over
InListOrder(log, op, list) ==
    \A c, d \in CallsOf(log, {op}) :
        c < d => PositionOf(list, log[c].about) < PositionOf(list, log[d].about)

LoopsInListOrder(f) ==
    /\ InListOrder(f.log, "createObjective", f.localObjectives)
    /\ InListOrder(f.log, "getObjective", f.remoteObjectives)
    /\ InListOrder(f.log, "createTask", f.localTasks)
    /\ InListOrder(f.log, "updateTask", f.localTasks)

C30_SequentialCalls ==
    /\ \A s \in InFlight :
           /\ Outstanding(frames[s].log) = {Len(frames[s].log)}
           /\ Pending(s).op = frames[s].pc
           /\ LoopsInListOrder(frames[s])
    /\ \A p \in DOMAIN passes :
           /\ Outstanding(passes[p].frame.log) = {}
           /\ LoopsInListOrder(passes[p].frame)

\* a second createTask call is outstanding after two createObjective calls
\* and a first createTask call have been answered
C30_Witness ==
    \E s \in InFlight :
        /\ frames[s].pc = "createTask"
        /\ Cardinality(CallsOf(frames[s].log, {"createObjective"})) = 2
        /\ Cardinality(CallsOf(frames[s].log, {"createTask"})) = 2
        /\ Outstanding(frames[s].log) = {Len(frames[s].log)}

(***************************************************************************)
(* C31. No busy guard.  A call of syncAll made while another invocation is *)
(* suspended at a network call is neither rejected nor queued: it sets the *)
(* status to 'syncing' and runs its own pass.  So two invocations can be   *)
(* in flight, both can issue createObjective for the same local-only       *)
(* objective, and the published status can be 'success' or 'error' while   *)
(* the other invocation is still running.                                  *)
(***************************************************************************)
\* a call returned at once, without a pass
CallTurnedAway == Len(results') > Len(results) /\ Len(passes') = Len(passes)

NoBusyGuardStep ==
    /\ CallTurnedAway => ~isAuthenticated
    /\ InvocationStarts =>
           /\ syncState'.status = "syncing"
           /\ \E s \in InFlight' \ InFlight : frames'[s].pc = "getObjectives"

C31_NoBusyGuard == [][NoBusyGuardStep]_vars

\* one invocation has published its final status while another, started
\* before that, is still running; both have issued createObjective for the
\* same local objective
C31_Witness ==
    \E s \in InFlight :
        \E p \in DOMAIN passes :
            /\ syncState.status \in {"success", "error"}
            /\ syncState = passes[p].state
            /\ \E c \in CallsOf(frames[s].log, {"createObjective"}) :
                   \E d \in CallsOf(passes[p].frame.log, {"createObjective"}) :
                       /\ frames[s].log[c].about = passes[p].frame.log[d].about
                       /\ ~HasId(frames[s].remoteObjectives, frames[s].log[c].about)

(***************************************************************************)
(* C32. A failed getObjective call of the download loop is outside the     *)
(* per-entity try blocks: the pass runs no task phase (no getTasks,        *)
(* createTask or updateTask call), ends with status 'error' and the        *)
(* message of the exception, and keeps the mappings and the local          *)
(* objectives it added before the failure.                                 *)
(***************************************************************************)
DownloadAborted(pass) ==
    LET f == pass.frame
        m == pass.idMapping
    IN  /\ pass.escaped
        /\ f.log[Len(f.log)].op = "getObjective"
        /\ CallsOf(f.log, TaskPhaseOps) = {}
        /\ pass.state.status = "error"
        /\ pass.state.error = UnableToConnect
        /\ pass.result = [success |-> FALSE, error |-> UnableToConnect]
        /\ \A c \in CallsOf(f.log, {"createObjective"}) :
               f.log[c].outcome = "ok" =>
                   RegisteredTo(m, f.log[c].about, f.log[c].payload.id)
        /\ \A c \in CallsOf(f.log, {"getObjective"}) :
               f.log[c].outcome = "ok" =>
                   /\ RegisteredTo(m, f.log[c].about, f.log[c].about)
                   /\ \E x \in (Len(f.localObjectives) + 1)..Len(localObjectives) :
                          localObjectives[x].id = f.log[c].about

C32_DownloadFailure ==
    \A p \in DOMAIN passes :
        FailedCalls(passes[p].frame.log, {"getObjective"}) # {} =>
            DownloadAborted(passes[p])

\* the second download of a pass failed after an upload and a first
\* download had succeeded
C32_Witness ==
    \E p \in DOMAIN passes :
        LET log == passes[p].frame.log
        IN  /\ FailedCalls(log, {"getObjective"}) # {}
            /\ \E c \in CallsOf(log, {"getObjective"}) : log[c].outcome = "ok"
            /\ \E c \in CallsOf(log, {"createObjective"}) : log[c].outcome = "ok"
            /\ DownloadAborted(passes[p])

(***************************************************************************)
(* C33. Termination of a pass.  If every network call eventually returns   *)
(* or fails, an authenticated invocation eventually leaves 'syncing' for   *)
(* 'success' or 'error' and returns a result, and a pass issues at most    *)
(* 2 + (local objectives) + (remote objectives) + 2 * (local tasks)        *)
(* network calls.                                                          *)
(***************************************************************************)
CallBound(f) ==
    2 + Len(f.localObjectives) + Len(f.remoteObjectives) + 2 * Len(f.localTasks)

CallsBounded ==
    /\ \A s \in Slots : Len(frames[s].log) <= CallBound(frames[s])
    /\ \A p \in DOMAIN passes :
           Len(passes[p].frame.log) <= CallBound(passes[p].frame)

\* invocation s waits for the answer to its k-th network call
AwaitingAnswer(s, k) == frames[s].pc # "idle" /\ Len(frames[s].log) = k

\* no pass of the model issues more calls than this
MostCalls == 2 + 4 * (MaxObjectives + MaxTasks)

EveryCallAnswered ==
    \A s \in Slots : \A k \in 1..MostCalls : []<>~AwaitingAnswer(s, k)

\* the n-th invocation is running
Syncing(n) == Len(results) = n /\ InFlight # {} /\ syncState.status = "syncing"

\* the n-th invocation has returned its result
Returned(n) ==
    /\ Len(results) > n
    /\ syncState.status \in {"success", "error"}
    /\ InFlight = {}

C33_Termination ==
    /\ []CallsBounded
    /\ EveryCallAnswered =>
           \A n \in 0..MaxInvocations : Syncing(n) ~> Returned(n)

\* a pass has returned after calls of every kind
C33_Witness ==
    \E p \in DOMAIN passes :
        /\ ~passes[p].escaped
        /\ \A op \in {"getObjectives", "createObjective", "getObjective",
                      "getTasks", "createTask", "updateTask"} :
               CallsOf(passes[p].frame.log, {op}) # {}
        /\ passes[p].state.status = "success"
        /\ Len(results) = p

(***************************************************************************)
(* C34. Every local objective is accounted for.  When the objective phase  *)
(* of a pass has run to its end, each local objective the pass began with  *)
(* either had its identifier registered in idMapping by this pass or has   *)
(* exactly one entry in the error list; a createObjective call that        *)
(* returns without failing leaves the mappings of the objective and of its *)
(* pillars, metrics and rituals registered.                                *)
(***************************************************************************)
ObjectivePhaseDone(f) == CallsOf(f.log, {"getTasks"}) # {}

UploadsAbout(f, id, outcomes) ==
    {c \in CallsOf(f.log, {"createObjective"}) :
        f.log[c].about = id /\ f.log[c].outcome \in outcomes}

RegisteredThisPass(pass, local) ==
    /\ MapHas(pass.idMapping, local.id)
    /\ \/ ObjectiveMatch(local, pass.frame.remoteObjectives) # "localOnly"
       \/ UploadsAbout(pass.frame, local.id, {"ok", "empty"}) # {}

OneErrorFor(f, local) ==
    /\ Cardinality(UploadsAbout(f, local.id, {"failed"})) = 1
    /\ \E e \in DOMAIN f.objErrors : f.objErrors[e] = FailedToUploadObjective(local.name)

AccountedFor(pass) ==
    \A x \in DOMAIN pass.frame.localObjectives :
        LET local == pass.frame.localObjectives[x]
        IN  RegisteredThisPass(pass, local) \/ OneErrorFor(pass.frame, local)

ReturnedUploadsRegistered(pass) ==
    \A x \in DOMAIN pass.frame.localObjectives :
        LET local == pass.frame.localObjectives[x]
        IN  UploadsAbout(pass.frame, local.id, {"ok", "empty"}) # {} =>
                FamilyIds(local) \subseteq DOMAIN pass.idMapping

C34_AccountedFor ==
    \A p \in DOMAIN passes :
        ObjectivePhaseDone(passes[p].frame) =>
            /\ AccountedFor(passes[p])
            /\ ReturnedUploadsRegistered(passes[p])

(***************************************************************************)
(* C35. Only canonical identifiers go on the wire.  As long as every       *)
(* identifier the remote returns is UUID-shaped, every identifier in a     *)
(* createObjective payload (the objective, its pillars, metrics, rituals   *)
(* and their pillarId references) and in a createTask payload (task id,    *)
(* objectiveId, pillarId, ritualId) is UUID-shaped, a reference that       *)
(* cannot be resolved being left out, and every value held in idMapping is *)
(* UUID-shaped.                                                            *)
(***************************************************************************)
UuidShaped(id) == id.shape = "uuid"
UuidShapedOrLeftOut(id) == id = NoId \/ UuidShaped(id)

RemoteObjectiveIds(remote) ==
    {remote.id} \cup Ids(remote.pillars) \cup Ids(remote.metrics)
        \cup Ids(remote.rituals)

RemoteIdsUuidShaped ==
    /\ \A x \in DOMAIN remoteObjectives :
           \A id \in RemoteObjectiveIds(remoteObjectives[x]) : UuidShaped(id)
    /\ \A x \in DOMAIN remoteTasks : UuidShaped(remoteTasks[x].id)

ObjectivePayloadCanonical(payload) ==
    /\ UuidShaped(payload.id)
    /\ \A x \in DOMAIN payload.pillars : UuidShaped(payload.pillars[x].id)
    /\ \A x \in DOMAIN payload.metrics :
           /\ UuidShaped(payload.metrics[x].id)
           /\ UuidShapedOrLeftOut(payload.metrics[x].pillarId)
    /\ \A x \in DOMAIN payload.rituals :
           /\ UuidShaped(payload.rituals[x].id)
           /\ UuidShapedOrLeftOut(payload.rituals[x].pillarId)

TaskPayloadCanonical(payload) ==
    /\ UuidShaped(payload.id)
    /\ UuidShaped(payload.objectiveId)
    /\ UuidShapedOrLeftOut(payload.pillarId)
    /\ UuidShapedOrLeftOut(payload.ritualId)

C35_CanonicalOnTheWire ==
    RemoteIdsUuidShaped =>
        /\ \A k \in DOMAIN idMapping : UuidShaped(idMapping[k])
        /\ \A s \in Slots :
               /\ frames[s].pc = "createObjective" =>
                      ObjectivePayloadCanonical(Pending(s).payload)
               /\ frames[s].pc = "createTask" =>
                      TaskPayloadCanonical(Pending(s).payload)

\* a task with a token identifier and token references is being created in a
\* second pass, after an objective with token children was uploaded
C35_Witness ==
    /\ RemoteIdsUuidShaped
    /\ Len(passes) = 1
    /\ \E s \in Slots :
           /\ frames[s].pc = "createTask"
           /\ ~UuidShaped(Pending(s).about)
           /\ \E x \in DOMAIN frames[s].localTasks :
                  /\ frames[s].localTasks[x].id = Pending(s).about
                  /\ ~UuidShaped(frames[s].localTasks[x].objectiveId)
                  /\ frames[s].localTasks[x].pillarId # NoId
                  /\ ~UuidShaped(frames[s].localTasks[x].pillarId)
                  /\ UuidShaped(Pending(s).payload.pillarId)
    /\ \E k \in DOMAIN idMapping : ~UuidShaped(k)

(***************************************************************************)
(* C36. Entering 'syncing' clears the error text and keeps lastSyncAt.     *)
(* The snapshot published when an authenticated invocation starts has      *)
(* status 'syncing', error null and the lastSyncAt of the state before it. *)
(* The snapshot published after an escaping exception keeps lastSyncAt:    *)
(* C36_KeepsLastSyncAt reads this as the lastSyncAt of the state the catch *)
(* block replaces, C36_KeepsLastSyncAtOfStart as the value syncState had   *)
(* when the invocation was called.                                         *)
(***************************************************************************)
EnteringSyncing ==
    InvocationStarts =>
        /\ syncState' = [status |-> "syncing", error |-> Null,
                         lastSyncAt |-> syncState.lastSyncAt]
        /\ Len(notified') = Len(notified) + 1
        /\ notified'[Len(notified')] = syncState'

EndsEscaped == InvocationEnds /\ passes'[Len(passes')].escaped

CaughtKeepsCurrent ==
    EndsEscaped =>
        /\ syncState'.lastSyncAt = syncState.lastSyncAt
        /\ notified'[Len(notified')] = syncState'

CaughtKeepsStart ==
    EndsEscaped =>
        /\ syncState'.lastSyncAt = passes'[Len(passes')].frame.lastSyncAtBefore
        /\ notified'[Len(notified')] = syncState'

Transition == notified' # notified

CalledWhileSubscribed(l) ==
    delivered'[l] # delivered[l] =>
        /\ l \in listeners
        /\ Transition
        /\ delivered'[l] = Append(delivered[l], syncState')

HearsEveryTransition(l) ==
    (Transition /\ l \in listeners) => Len(delivered'[l]) = Len(delivered[l]) + 1

NothingReplayed == listeners' # listeners => delivered' = delivered

Unsubscribes(l) ==
    \E h \in DOMAIN unsubscribers :
        /\ unsubscribers[h].listener = l
        /\ ~unsubscribers[h].called
        /\ unsubscribers'[h].called

Unsubscribed(l) ==
    \E h \in DOMAIN unsubscribers :
        unsubscribers[h].listener = l /\ unsubscribers[h].called

LifecycleStep ==
    /\ NothingReplayed
    /\ \A l \in Listeners :
           /\ CalledWhileSubscribed(l)
           /\ HearsEveryTransition(l)
           /\ Unsubscribes(l) => l \notin listeners'
           /\ l \notin listeners => delivered'[l] = delivered[l]

NeverAgainStep ==
    /\ LifecycleStep
    /\ \A l \in Listeners : Unsubscribed(l) => delivered'[l] = delivered[l]

C37_Lifecycle == [][LifecycleStep]_vars

C37_NeverAgain == [][NeverAgainStep]_vars

\* a listener subscribed twice heard the first transition once and, after
\* one of the two returned functions was called, did not hear the second
C37_Witness ==
    /\ Len(unsubscribers) = 2
    /\ unsubscribers[1].listener = unsubscribers[2].listener
    /\ unsubscribers[1].called
    /\ ~unsubscribers[2].called
    /\ listeners = {}
    /\ Len(notified) = 2
    /\ delivered[unsubscribers[1].listener] = <<notified[1]>>

(***************************************************************************)
(* C38. The recurring morning briefing is scheduled only once.  After any  *)
(* sequence of calls of scheduleRecurringMorningBriefing, calls that       *)
(* overlap at their awaits included, at most one notification of type      *)
(* 'morning_briefing' is scheduled on the platform.                        *)
(***************************************************************************)
C38_BriefingOnce == Len(OfType(platform, "morning_briefing")) <= 1

(***************************************************************************)
(* C39. Task notification tracking.  After any sequence of                 *)
(* scheduleTaskReminder, cancelTaskNotifications and                       *)
(* cancelAllScheduledNotifications calls, platform scheduling calls being  *)
(* allowed to fail, every notification scheduled for a task and not        *)
(* cancelled is listed under the task's id in scheduledNotifications; and  *)
(* when cancelTaskNotifications(taskId) returns, no notification for that  *)
(* task is scheduled and the Map has no entry for it.                      *)
(***************************************************************************)
NotificationsFor(notifications, taskId) ==
    {notifications[x].identifier :
        x \in {y \in DOMAIN notifications : notifications[y].taskId = taskId}}

Tracked(taskId) ==
    NotificationsFor(platform, taskId) # {} =>
        /\ MapHas(scheduledNotifications, taskId)
        /\ NotificationsFor(platform, taskId) \subseteq
               Range(scheduledNotifications[taskId])

CancelReturns(taskId) ==
    /\ Len(schedulerReturns') = Len(schedulerReturns) + 1
    /\ schedulerReturns'[Len(schedulerReturns')].fn = "cancelTaskNotifications"
    /\ schedulerReturns'[Len(schedulerReturns')].taskId = taskId

TrackingStep ==
    /\ Quiet' => \A t \in TaskIds : Tracked(t)'
    /\ \A t \in TaskIds :
           CancelReturns(t) =>
               /\ NotificationsFor(platform', t) = {}
               /\ ~MapHas(scheduledNotifications', t)

C39_Tracking == [][TrackingStep]_vars

(***************************************************************************)
(* C40. Rate-limit retry bound.  withRetry calls fn at most maxRetries + 1 *)
(* times and then rethrows the last error; it calls fn again only after a  *)
(* rate-limit error that is no quota or billing error, never after any     *)
(* other error; and it returns at the first success without a further      *)
(* call.                                                                   *)
(***************************************************************************)
QuotaOrBilling(error) ==
    \/ error.code = "insufficient_quota"
    \/ error \in {QuotaExceeded, RateLimitedOverQuota, BillingLimit}

LooksRateLimited(error) ==
    error \in {RateLimited, TooManyRequests, QuotaExceeded, RateLimitedOverQuota}

Retried == IF retry.pc = "delay" THEN 1..Len(retry.thrown) ELSE 1..(retry.calls - 1)

C40_RetryBound ==
    /\ retry.calls <= retry.maxRetries + 1
    /\ retry.calls = retry.attempt + (IF retry.pc = "idle" THEN 0 ELSE 1)
    /\ \A x \in Retried :
           LooksRateLimited(retry.thrown[x]) /\ ~QuotaOrBilling(retry.thrown[x])
    /\ retry.pc = "delay" => retry.calls <= retry.maxRetries
    /\ retry.outcome = "threw" =>
           /\ retry.pc = "done"
           /\ retry.calls = Len(retry.thrown)
           /\ retry.error = retry.thrown[Len(retry.thrown)]
           /\ \/ QuotaOrBilling(retry.error)
              \/ ~LooksRateLimited(retry.error)
              \/ retry.calls = retry.maxRetries + 1
    /\ retry.outcome = "returned" =>
           /\ retry.pc = "done"
           /\ retry.calls = Len(retry.thrown) + 1

\* the last of four calls failed like the three before it, and was rethrown
C40_Witness ==
    /\ retry.maxRetries = 3
    /\ retry.outcome = "threw"
    /\ retry.calls = 4
    /\ retry.error = TooManyRequests
    /\ retry.thrown[1] = RateLimited

=============================================================================
